---- MODULE Spec2Model ----
(***************************************************************************)
(* Model of the price-fusion core of NQ Master v3:                         *)
(*   src/core/data_feeds.py  YahooFeed, OCRFeed (the two feeds)            *)
(*   src/core/engine.py      TradingEngine (store, splice, worker loop)    *)
(*                                                                         *)
(* Prices are integers in units of 0.005 point, so that a recognised token *)
(* with two decimals, a 0.25 tick and the mean of two ticks are all exact. *)
(* Timestamps are minutes of the trading day, 1..MaxTime; timestamp 0      *)
(* stands for a bar dated before today.                                    *)
(***************************************************************************)
EXTENDS Integers, Sequences, FiniteSets, TLC

VARIABLES
    \* ---- TradingEngine (engine.py 39-63)
    df,              \* self.df: the store, a sequence of bars in index order
    current_price,   \* self.current_price
    current_source,  \* self.current_source
    emitted,         \* arguments of the last price_updated.emit, <<>> before it
    or_high, or_low, \* self.or_high, self.or_low, NoPrice is None
    or_ready,        \* self.or_ready
    \* ---- YahooFeed (data_feeds.py 34-38)
    latest_data,     \* self.latest_data: <<>> is None, <<frame>> a DataFrame
    \* ---- OCRFeed (data_feeds.py 170-181)
    latest_price,    \* self.latest_price, NoPrice is None
    last_good_price, \* self.last_good_price, NoPrice is None
    lastCapture,     \* what the most recent _capture_price call returned
    \* ---- Config (config.py 19-21)
    min_px, max_px, max_jump_pts,
    \* ---- the relocation timer of OCRFeed._ocr_loop (data_feeds.py 178-181)
    clock,            \* time.time(), in seconds
    last_auto_locate, \* self.last_auto_locate
    last_ocr_time,    \* self.last_ocr_time, NoTime is None
    locates,          \* auto_locate calls of the running worker so far
    captures,         \* _capture_price calls of the running worker so far
    \* ---- threads (engine.py 42-43, 79-80; data_feeds.py 36-37, 48-49, 172-173, 191-192)
    running,         \* _running of each component
    stop_event,      \* _stop_event of each component: TRUE when set
    pc,              \* where each worker thread of each component stands
    elocal,          \* the locals of each engine worker inside _update_data
    snap,            \* the copy of the store a reader took last, <<>> if none
    \* ---- environment
    now,             \* the wall clock's minute
    \* ---- observers
    lastOp,          \* the operation that made the last step
    lastTokens,      \* the capture the last _capture_price call worked on
    prevGood,        \* last_good_price as that call found it
    committed,       \* the store as the last completed merge or splice left it
    history,         \* per component: "fresh", "stopped" (only stop() was
                     \* called so far) or "started" (start() has been called)
    \* ---- calls of the indicator, signal and locator functions
    args,            \* the arguments of the call under study
    ret              \* what the last call on them returned

storeVars   == <<df, current_price, current_source, emitted>>
yahooVars   == <<latest_data>>
ocrVars     == <<latest_price, last_good_price, lastCapture>>
configVars  == <<min_px, max_px, max_jump_pts>>
timerVars   == <<clock, last_auto_locate, last_ocr_time, locates, captures>>
threadVars  == <<running, stop_event, pc, elocal, snap>>
obsVars     == <<lastTokens, prevGood>>
threadObs   == <<committed, history>>
rangeVars   == <<or_high, or_low, or_ready>>
callVars    == <<args, ret>>
vars == <<storeVars, yahooVars, ocrVars, configVars, timerVars, threadVars, now, lastOp,
          obsVars, threadObs, rangeVars, callVars>>

(***************************************************************************)
(* Bounds of the model                                                     *)
(***************************************************************************)
MaxTime   == 2      \* minutes of the day the clock runs through
MaxRows   == 2      \* bars in one reference-feed download
MaxTokens == 2      \* recognised tokens in one capture
MaxWorkers == 2     \* worker threads of one component alive at a time

(***************************************************************************)
(* Values                                                                  *)
(***************************************************************************)
NoPrice == 0 - 1                      \* Python None where a price is expected
NoData  == <<>>                       \* Python None where a frame is expected
Px(points, cents) == 200 * points + 2 * cents
Max(a, b) == IF a >= b THEN a ELSE b
Min(a, b) == IF a <= b THEN a ELSE b
Abs(a) == IF a >= 0 THEN a ELSE 0 - a
SeqsUpTo(S, n) == UNION {[1..k -> S] : k \in 0..n}
Op(o, c, w) == [op |-> o, comp |-> c, w |-> w]   \* a value of lastOp

(***************************************************************************)
(* Price Extractor: OCRFeed._capture_price                                 *)
(***************************************************************************)
JunkToken == 0 - 2                    \* a token with no digits, or empty text

\* PRICE_PATTERN.search on a decimal token with at most two fraction digits:
\* it matches iff the integer part has 4 to 6 digits.
PatternMatches(tok) ==
    /\ tok # JunkToken
    /\ tok >= Px(1000, 0)
    /\ tok < Px(1000000, 0)

\* round(price * 4) / 4 with Python's round-half-to-even
SnapToTick(p) ==
    LET tick == Px(0, 25)
        q == p \div tick
        r == p % tick
    IN  tick * (IF 2 * r < tick THEN q
                ELSE IF 2 * r > tick THEN q + 1
                ELSE IF q % 2 = 0 THEN q ELSE q + 1)

\* the loop of lines 257-273: the candidates, in token order
RECURSIVE Candidates(_, _, _)
Candidates(toks, lo, hi) ==
    IF toks = <<>> THEN <<>>
    ELSE LET t == Head(toks)
             rest == Candidates(Tail(toks), lo, hi)
         IN  IF PatternMatches(t) /\ lo <= t /\ t <= hi
             THEN <<SnapToTick(t)>> \o rest
             ELSE rest

RECURSIVE InsertAsc(_, _)
InsertAsc(s, x) ==
    IF s = <<>> THEN <<x>>
    ELSE IF x < Head(s) THEN <<x>> \o s
    ELSE <<Head(s)>> \o InsertAsc(Tail(s), x)

RECURSIVE SortAsc(_)
SortAsc(s) == IF s = <<>> THEN <<>> ELSE InsertAsc(SortAsc(Tail(s)), Head(s))

\* numpy.median of a non-empty list: the middle value, or the mean of the
\* two middle values
Median(prices) ==
    LET s == SortAsc(prices)
        n == Len(s)
    IN  IF n % 2 = 1 THEN s[(n + 1) \div 2]
        ELSE (s[n \div 2] + s[n \div 2 + 1]) \div 2

\* One capture: ok is FALSE when the grab or the recognition raises (lines
\* 289-291), text is data["text"] otherwise.
CaptureFails == [ok |-> FALSE, text |-> <<>>]
Recognised(toks) == [ok |-> TRUE, text |-> toks]

\* the sanity gate of lines 281-287, on the median
SanityGate_off(median, good, jump) == [ret |-> median, good |-> median]
SanityGate(median, good, jump) ==
    IF good # NoPrice /\ Abs(median - good) > jump
    THEN [ret |-> good, good |-> good]
    ELSE [ret |-> median, good |-> median]

\* _capture_price: what it returns and what last_good_price is afterwards.
CapturePrice(capture, good, lo, hi, jump) ==
    IF ~capture.ok THEN [ret |-> NoPrice, good |-> good]
    ELSE LET prices == Candidates(capture.text, lo, hi)
         IN  IF prices = <<>> THEN [ret |-> NoPrice, good |-> good]
             ELSE SanityGate(Median(prices), good, jump)

(***************************************************************************)
(* Reference feed: YahooFeed._fetch_data                                   *)
(***************************************************************************)
PrevDay == 0                          \* timestamp of a bar dated before today

\* The bar the reference source reports for minute t: it opens at 2000.50
\* and closes low in odd minutes, high in even ones.
YahooBar(t) ==
    LET o == Px(2000, 50)
        c == IF t % 2 = 1 THEN Px(2000, 0) ELSE Px(2001, 0)
    IN  [ts |-> t, Open |-> o, High |-> Max(o, c), Low |-> Min(o, c),
         Close |-> c, Volume |-> 100]

RawBars == {YahooBar(t) : t \in PrevDay..MaxTime}

\* ticker.history: it raises (ok = FALSE) or returns rows
Downloads ==
    {[ok |-> FALSE, rows |-> <<>>]}
        \cup {[ok |-> TRUE, rows |-> r] : r \in SeqsUpTo(RawBars, MaxRows)}

IsToday(bar) == bar.ts # PrevDay

\* _fetch_data, lines 72-90: latest_data afterwards
FetchData_clears(latest, download) ==
    IF ~download.ok \/ download.rows = <<>> THEN NoData
    ELSE <<SelectSeq(download.rows, IsToday)>>
FetchData(latest, download) ==
    IF ~download.ok \/ download.rows = <<>> THEN latest
    ELSE <<SelectSeq(download.rows, IsToday)>>

(***************************************************************************)
(* Time-series store: TradingEngine._update_data, _splice_ocr_price        *)
(***************************************************************************)
InIndex(d, t) == \E i \in 1..Len(d) : d[i].ts = t

\* df.loc[timestamp] = row: overwrite the rows with that label, or enlarge
SetRow(d, bar) ==
    IF InIndex(d, bar.ts)
    THEN [i \in 1..Len(d) |-> IF d[i].ts = bar.ts THEN bar ELSE d[i]]
    ELSE Append(d, bar)

RECURSIVE InsertByTs(_, _)
InsertByTs(s, bar) ==
    IF s = <<>> THEN <<bar>>
    ELSE IF bar.ts < Head(s).ts THEN <<bar>> \o s
    ELSE <<Head(s)>> \o InsertByTs(Tail(s), bar)

\* df.sort_index(inplace=True)
RECURSIVE SortIndex(_)
SortIndex_skip(d) == d
SortIndex(d) ==
    IF d = <<>> THEN <<>>
    ELSE InsertByTs(SortIndex(SubSeq(d, 1, Len(d) - 1)), d[Len(d)])

\* the loop of lines 180-181
RECURSIVE SetRows(_, _)
SetRows(d, rows) ==
    IF rows = <<>> THEN d ELSE SetRows(SetRow(d, Head(rows)), Tail(rows))

\* lines 176-182: the store after the merge of the feed's latest frame
MergeYahoo(d, data) ==
    IF data # NoData /\ data[1] # <<>>
    THEN SortIndex(SetRows(d, data[1]))
    ELSE d

\* lines 219-229: the bar synthesised for minute t
NewBar_flat(d, t, p) ==
    [ts |-> t, Open |-> p, High |-> p, Low |-> p, Close |-> p, Volume |-> 0]
NewBar(d, t, p) ==
    LET prev_close == d[Len(d)].Close
    IN  [ts |-> t, Open |-> prev_close, High |-> Max(prev_close, p),
         Low |-> Min(prev_close, p), Close |-> p, Volume |-> 0]

\* lines 212-217: the existing bar with the price spliced in
UpdateBar_closeonly(bar, p) == [bar EXCEPT !.Close = p]
UpdateBar_drift(bar, p) ==
    [bar EXCEPT !.Open = bar.Close, !.Close = p,
                !.High = Max(bar.High, p), !.Low = Min(bar.Low, p)]
UpdateBar(bar, p) ==
    [bar EXCEPT !.Close = p, !.High = Max(bar.High, p), !.Low = Min(bar.Low, p)]

\* _splice_ocr_price with now_et() in minute t: the store afterwards
SpliceOcrPrice_seed(d, t, p) ==
    IF d = <<>>
    THEN <<[ts |-> t, Open |-> p, High |-> p, Low |-> p, Close |-> p,
            Volume |-> 0]>>
    ELSE IF InIndex(d, t)
    THEN [i \in 1..Len(d) |-> IF d[i].ts = t THEN UpdateBar(d[i], p) ELSE d[i]]
    ELSE SortIndex(Append(d, NewBar(d, t, p)))
SpliceOcrPrice(d, t, p) ==
    IF d = <<>> THEN d
    ELSE IF InIndex(d, t)
    THEN [i \in 1..Len(d) |-> IF d[i].ts = t THEN UpdateBar(d[i], p) ELSE d[i]]
    ELSE SortIndex(Append(d, NewBar(d, t, p)))

\* lines 194-198: the price and source when the feed has no price
FallbackRecord_first(d, price, source) ==
    IF d # <<>> THEN <<d[1].Close, "YAHOO">> ELSE <<price, source>>
FallbackRecord(d, price, source) ==
    IF d # <<>> THEN <<d[Len(d)].Close, "YAHOO">> ELSE <<price, source>>


(***************************************************************************)
(* Worker threads and their lifecycle                                      *)
(***************************************************************************)
Comps == {"yahoo", "ocr", "engine"}
Workers == 1..MaxWorkers
NoLocals == [todo |-> <<>>, ocr_price |-> NoPrice, source |-> "YAHOO"]

\* where a new thread begins: _ocr_loop locates the region first (line 220)
FirstPc(c) == IF c = "ocr" THEN "startup" ELSE "loop"
Live(p, c) == {w \in Workers : p[c][w] # "gone"}
FreeSlots(p, c) == Workers \ Live(p, c)

\* threading.Thread(target=..., daemon=True).start()
Spawn(p, c) ==
    LET w == CHOOSE x \in FreeSlots(p, c) : \A y \in FreeSlots(p, c) : x <= y
    IN  [p EXCEPT ![c][w] = FirstPc(c)]

\* YahooFeed.start, OCRFeed.start on the lifecycle state L
StartFeed_unguarded(L, c) ==
    [running |-> [L.running EXCEPT ![c] = TRUE],
     stop_event |-> [L.stop_event EXCEPT ![c] = FALSE],
     pc |-> IF FreeSlots(L.pc, c) = {} THEN L.pc ELSE Spawn(L.pc, c)]
StartFeed(L, c) ==
    IF L.running[c] THEN L
    ELSE [running |-> [L.running EXCEPT ![c] = TRUE],
          stop_event |-> [L.stop_event EXCEPT ![c] = FALSE],
          pc |-> Spawn(L.pc, c)]

\* YahooFeed.stop, OCRFeed.stop
StopFeed(L, c) ==
    [L EXCEPT !.running[c] = FALSE, !.stop_event[c] = TRUE]

\* TradingEngine.start (the news feed it also starts is outside the core)
StartEngine(L) ==
    IF L.running["engine"] THEN L
    ELSE LET flagged == [L EXCEPT !.running["engine"] = TRUE,
                                  !.stop_event["engine"] = FALSE]
             feeds == StartFeed(StartFeed(flagged, "yahoo"), "ocr")
         IN  [feeds EXCEPT !.pc = Spawn(feeds.pc, "engine")]

\* TradingEngine.stop
StopEngine(L) ==
    IF ~L.running["engine"] THEN L
    ELSE LET flagged == [L EXCEPT !.running["engine"] = FALSE,
                                  !.stop_event["engine"] = TRUE]
         IN  StopFeed(StopFeed(flagged, "yahoo"), "ocr")

\* the loop tests `while self._running and not self._stop_event.is_set()`
LoopContinues_forever(c) == TRUE
LoopContinues(c) == running[c] /\ ~stop_event[c]

\* where the except clause of a worker loop leaves the thread: at the wait
\* that ends the cycle
AfterRaise_dies == "gone"
AfterRaise == "loop"

\* compute_indicators copies its argument (indicators.py 18, 20) and
\* chart_panel copies engine.df (chart_panel.py 94): the store after a read
StoreAfterRead_inplace(d) == SubSeq(d, 1, Len(d) - 1)
StoreAfterRead(d) == d

(***************************************************************************)
(* Opening range: TradingEngine._update_opening_range                      *)
(***************************************************************************)
\* 9:30 on the clock of the model, and config.or_minutes on its scale
MarketOpen == 1
or_minutes == 1
OrEnd == MarketOpen + or_minutes

RECURSIVE MaxHigh(_)
MaxHigh(d) ==
    IF Len(d) = 1 THEN d[1].High ELSE Max(d[1].High, MaxHigh(Tail(d)))
RECURSIVE MinLow(_)
MinLow(d) ==
    IF Len(d) = 1 THEN d[1].Low ELSE Min(d[1].Low, MinLow(Tail(d)))

InWindow(b) == b.ts >= MarketOpen /\ b.ts <= OrEnd

\* [high, low, ready] after the call on store d at minute t, from range r
UpdateOpeningRange(r, d, t) ==
    LET or_data == SelectSeq(d, InWindow)
    IN  IF d = <<>> \/ or_data = <<>> THEN r
        ELSE [high |-> MaxHigh(or_data),
              low |-> MinLow(or_data),
              ready |-> t >= OrEnd]

OpeningRange == [high |-> or_high, low |-> or_low, ready |-> or_ready]
SetOpeningRange(r) ==
    /\ or_high' = r.high
    /\ or_low' = r.low
    /\ or_ready' = r.ready

(***************************************************************************)
(* Operations, each a whole call                                           *)
(***************************************************************************)
\* one cycle of YahooFeed._feed_loop (lines 63-66)
YahooCycle ==
    \E download \in Downloads :
        /\ latest_data' = FetchData(latest_data, download)
        /\ lastOp' = Op("fetch", "yahoo", 0)
        /\ UNCHANGED <<storeVars, ocrVars, configVars, timerVars, now, obsVars, rangeVars, callVars>>
        /\ UNCHANGED <<threadVars, threadObs>>

\* lines 231-235 of OCRFeed._ocr_loop on the given capture
CaptureAndPublish(capture) ==
    LET r == CapturePrice(capture, last_good_price, min_px, max_px, max_jump_pts)
    IN  /\ last_good_price' = r.good
        /\ lastCapture' = r.ret
        /\ latest_price' = IF r.ret # NoPrice THEN r.ret ELSE latest_price

\* one cycle of OCRFeed._ocr_loop as one step
OcrCycle(capture) ==
    /\ CaptureAndPublish(capture)
    /\ lastOp' = Op("capture", "ocr", 0)
    /\ UNCHANGED <<storeVars, yahooVars, configVars, timerVars, now, rangeVars, callVars>>
    /\ UNCHANGED <<threadVars, threadObs>>

\* TradingEngine._update_data (lines 174-201): what it does to the store
MergeSpliceEmit ==
    LET merged == MergeYahoo(df, latest_data)
        ocr_price == latest_price
    IN  /\ IF ocr_price # NoPrice
           THEN /\ current_price' = ocr_price
                /\ current_source' = "OCR"
                /\ df' = SpliceOcrPrice(merged, now, ocr_price)
           ELSE /\ df' = merged
                /\ current_price' = FallbackRecord(merged, current_price, current_source)[1]
                /\ current_source' = FallbackRecord(merged, current_price, current_source)[2]
        /\ emitted' = <<current_price', current_source'>>

\* one cycle of the processing loop as one step: _update_data, then
\* _compute_signals (it changes no variable here) and _update_opening_range
UpdateData ==
    /\ MergeSpliceEmit
    /\ SetOpeningRange(UpdateOpeningRange(OpeningRange, df', now))
    /\ lastOp' = Op("update", "engine", 0)
    /\ UNCHANGED <<yahooVars, ocrVars, configVars, timerVars, now, obsVars, callVars>>
    /\ UNCHANGED <<threadVars, threadObs>>

\* the clock passes into the next minute
Tick ==
    /\ now < MaxTime
    /\ now' = now + 1
    /\ lastOp' = Op("tick", "clock", 0)
    /\ UNCHANGED <<storeVars, yahooVars, ocrVars, configVars, timerVars, obsVars,
                   rangeVars, callVars>>
    /\ UNCHANGED <<threadVars, threadObs>>

(***************************************************************************)
(* Spec: the store under the feeds' and the engine's cycles, with the      *)
(* configuration of config.py                                              *)
(***************************************************************************)
\* time.time() when the application starts, far beyond one relocation
\* period after the epoch; None for a time
Epoch == 100
NoTime == 0 - 1

InitCommon ==
    /\ df = <<>>
    /\ current_price = 0
    /\ current_source = "YAHOO"
    /\ emitted = <<>>
    /\ latest_data = NoData
    /\ latest_price = NoPrice
    /\ last_good_price = NoPrice
    /\ lastCapture = NoPrice
    /\ lastOp = Op("init", "none", 0)
    /\ lastTokens = CaptureFails
    /\ prevGood = NoPrice
    /\ running = [c \in Comps |-> FALSE]
    /\ stop_event = [c \in Comps |-> FALSE]
    /\ pc = [c \in Comps |-> [w \in Workers |-> "gone"]]
    /\ elocal = [w \in Workers |-> NoLocals]
    /\ snap = NoData
    /\ committed = <<>>
    /\ history = [c \in Comps |-> "fresh"]
    /\ or_high = NoPrice
    /\ or_low = NoPrice
    /\ or_ready = FALSE
    /\ clock = Epoch
    /\ last_auto_locate = 0
    /\ last_ocr_time = NoTime
    /\ locates = 0
    /\ captures = 0

\* no call of an indicator, signal or locator function is under study
NoCall == [fn |-> "none"]
NoCalls ==
    /\ args = NoCall
    /\ ret = NoCall

DefaultConfig ==
    /\ min_px = Px(2000, 0)
    /\ max_px = Px(40000, 0)
    /\ max_jump_pts = Px(60, 0)

Init ==
    /\ InitCommon
    /\ NoCalls
    /\ now = 1
    /\ DefaultConfig

\* what the ladder shows while the engine runs: nothing readable, or one price
EngineCaptures ==
    {CaptureFails, Recognised(<<>>),
     Recognised(<<Px(2000, 25)>>), Recognised(<<Px(2001, 50)>>)}

OcrStep == \E capture \in EngineCaptures : OcrCycle(capture) /\ UNCHANGED obsVars

Next == YahooCycle \/ OcrStep \/ UpdateData \/ Tick

Spec == Init /\ [][Next]_vars

(***************************************************************************)
(* SpecExtract: the extractor alone, over price-bound configurations       *)
(***************************************************************************)
ExtractTokens ==
    {Px(999, 50), Px(2000, 0), Px(2000, 10), Px(2000, 30), Px(2100, 0)}

ExtractCaptures ==
    {CaptureFails} \cup {Recognised(t) : t \in SeqsUpTo(ExtractTokens, MaxTokens)}

\* [min_px, max_px, max_jump_pts]: config.py's, and bounds off the tick grid
ExtractConfigs ==
    {<<Px(2000, 0), Px(40000, 0), Px(60, 0)>>,
     <<Px(2000, 5), Px(2000, 10), Px(60, 0)>>,
     <<Px(2000, 0), Px(2000, 30), Px(0, 25)>>}

InitExtract ==
    /\ InitCommon
    /\ NoCalls
    /\ now = 1
    /\ \E cfg \in ExtractConfigs :
           /\ min_px = cfg[1]
           /\ max_px = cfg[2]
           /\ max_jump_pts = cfg[3]

ExtractStep ==
    \E capture \in ExtractCaptures :
        /\ OcrCycle(capture)
        /\ lastTokens' = capture
        /\ prevGood' = last_good_price

SpecExtract == InitExtract /\ [][ExtractStep]_vars


(***************************************************************************)
(* SpecThreads: the three worker loops as threads, the start and stop      *)
(* calls and a reader of the presentation layer, interleaved.  Inside      *)
(* _update_data every statement that touches shared state is a step.       *)
(***************************************************************************)
\* the reference source around minute 3: minute 1 alone, or minutes 1 and 2
ThreadDownloads ==
    {[ok |-> FALSE, rows |-> <<>>],
     [ok |-> TRUE, rows |-> <<YahooBar(1)>>],
     [ok |-> TRUE, rows |-> <<YahooBar(1), YahooBar(2)>>]}

ThreadCaptures == {CaptureFails, Recognised(<<Px(2000, 25)>>)}

Lifecycle == [running |-> running, stop_event |-> stop_event, pc |-> pc]
SetLifecycle(L) ==
    /\ running' = L.running
    /\ stop_event' = L.stop_event
    /\ pc' = L.pc

\* the model holds at most MaxWorkers threads of a component
CanStart(c) == running[c] \/ FreeSlots(pc, c) # {}

dataVars == <<storeVars, yahooVars, ocrVars, configVars, timerVars, now, obsVars, rangeVars, callVars>>
lifeVars == <<running, stop_event, history>>

\* ---- calls from the main thread
CallStartFeed(c) ==
    /\ CanStart(c)
    /\ SetLifecycle(StartFeed(Lifecycle, c))
    /\ history' = [history EXCEPT ![c] = "started"]
    /\ lastOp' = Op("start", c, 0)
    /\ UNCHANGED <<dataVars, elocal, snap, committed>>

CallStopFeed(c) ==
    /\ SetLifecycle(StopFeed(Lifecycle, c))
    /\ history' = [history EXCEPT ![c] = IF @ = "fresh" THEN "stopped" ELSE @]
    /\ lastOp' = Op("stop", c, 0)
    /\ UNCHANGED <<dataVars, elocal, snap, committed>>

CallStartEngine ==
    /\ running["engine"] \/ \A c \in Comps : CanStart(c)
    /\ SetLifecycle(StartEngine(Lifecycle))
    /\ history' = IF running["engine"] THEN history
                  ELSE [c \in Comps |-> "started"]
    /\ lastOp' = Op("start", "engine", 0)
    /\ UNCHANGED <<dataVars, elocal, snap, committed>>

CallStopEngine ==
    /\ SetLifecycle(StopEngine(Lifecycle))
    /\ history' = [history EXCEPT
                      !["engine"] = IF @ = "fresh" THEN "stopped" ELSE @]
    /\ lastOp' = Op("stop", "engine", 0)
    /\ UNCHANGED <<dataVars, elocal, snap, committed>>

\* get_current_data, get_confluence_analysis, ChartPanel.update_data: the
\* copy they take of a non-empty store
ReadStore ==
    /\ snap' = IF df = <<>> THEN NoData ELSE <<df>>
    /\ df' = StoreAfterRead(df)
    /\ lastOp' = Op("read", "ui", 0)
    /\ UNCHANGED <<current_price, current_source, emitted, yahooVars, ocrVars,
                   configVars, timerVars, now, obsVars, rangeVars, callVars>>
    /\ UNCHANGED <<running, stop_event, pc, elocal, committed, history>>

\* ---- steps of a worker thread
At(c, w, label) == pc[c][w] = label
Goto(c, w, label) == pc' = [pc EXCEPT ![c][w] = label]
SetLocals(w, l) == elocal' = [elocal EXCEPT ![w] = l]

\* the loop test after the wait (or on entry): the next cycle, or the end
LoopTest(c, w, first) ==
    /\ At(c, w, "loop")
    /\ Goto(c, w, IF LoopContinues(c) THEN first ELSE "gone")
    /\ lastOp' = Op("loop", c, w)
    /\ UNCHANGED <<dataVars, lifeVars, elocal, snap, committed>>

\* an exception inside the try of a cycle, caught by the loop's except
InCycle(c, w) == pc[c][w] \notin {"gone", "loop", "startup"}
WorkerRaise(c, w) ==
    /\ InCycle(c, w)
    /\ Goto(c, w, AfterRaise)
    /\ elocal' = IF c = "engine" THEN [elocal EXCEPT ![w] = NoLocals] ELSE elocal
    /\ lastOp' = Op("raise", c, w)
    /\ UNCHANGED <<dataVars, lifeVars, snap, committed>>

YahooFetch(w) ==
    /\ At("yahoo", w, "cycle")
    /\ \E download \in ThreadDownloads :
           latest_data' = FetchData(latest_data, download)
    /\ Goto("yahoo", w, "loop")
    /\ lastOp' = Op("fetch", "yahoo", w)
    /\ UNCHANGED <<storeVars, ocrVars, configVars, timerVars, now, obsVars, rangeVars, callVars>>
    /\ UNCHANGED <<lifeVars, elocal, snap, committed>>

\* self.auto_locate() before the loop: it moves the capture region only
OcrStartup(w) ==
    /\ At("ocr", w, "startup")
    /\ Goto("ocr", w, "loop")
    /\ lastOp' = Op("locate", "ocr", w)
    /\ UNCHANGED <<dataVars, lifeVars, elocal, snap, committed>>

OcrCapture(w) ==
    /\ At("ocr", w, "cycle")
    /\ \E capture \in ThreadCaptures : CaptureAndPublish(capture)
    /\ Goto("ocr", w, "loop")
    /\ lastOp' = Op("capture", "ocr", w)
    /\ UNCHANGED <<storeVars, yahooVars, configVars, timerVars, now, obsVars, rangeVars, callVars>>
    /\ UNCHANGED <<lifeVars, elocal, snap, committed>>

\* line 177: yahoo_data = self.yahoo_feed.get_latest_data(), and line 178
EngineReadYahoo(w) ==
    /\ At("engine", w, "yahoo")
    /\ IF latest_data # NoData /\ latest_data[1] # <<>>
       THEN /\ SetLocals(w, [elocal[w] EXCEPT !.todo = latest_data[1]])
            /\ Goto("engine", w, "merge")
       ELSE /\ Goto("engine", w, "ocr")
            /\ UNCHANGED elocal
    /\ lastOp' = Op("read_yahoo", "engine", w)
    /\ UNCHANGED <<dataVars, lifeVars, snap, committed>>

\* line 181, once per row
EngineMergeRow(w) ==
    /\ At("engine", w, "merge")
    /\ elocal[w].todo # <<>>
    /\ df' = SetRow(df, Head(elocal[w].todo))
    /\ SetLocals(w, [elocal[w] EXCEPT !.todo = Tail(@)])
    /\ lastOp' = Op("merge_row", "engine", w)
    /\ UNCHANGED <<current_price, current_source, emitted, yahooVars, ocrVars,
                   configVars, timerVars, now, obsVars, rangeVars, callVars>>
    /\ UNCHANGED <<lifeVars, pc, snap, committed>>

\* line 182
EngineMergeSort(w) ==
    /\ At("engine", w, "merge")
    /\ elocal[w].todo = <<>>
    /\ df' = SortIndex(df)
    /\ committed' = df'
    /\ Goto("engine", w, "ocr")
    /\ lastOp' = Op("merge_sort", "engine", w)
    /\ UNCHANGED <<current_price, current_source, emitted, yahooVars, ocrVars,
                   configVars, timerVars, now, obsVars, rangeVars, callVars>>
    /\ UNCHANGED <<lifeVars, elocal, snap>>

\* lines 185-189, or 194-197: the price of record
EngineSetPrice(w) ==
    /\ At("engine", w, "ocr")
    /\ IF latest_price # NoPrice
       THEN /\ current_price' = latest_price
            /\ SetLocals(w, [elocal[w] EXCEPT !.ocr_price = latest_price,
                                              !.source = "OCR"])
            /\ Goto("engine", w, "source")
       ELSE IF df # <<>>
       THEN /\ current_price' = FallbackRecord(df, current_price, current_source)[1]
            /\ SetLocals(w, [elocal[w] EXCEPT !.source = "YAHOO"])
            /\ Goto("engine", w, "source")
       ELSE /\ Goto("engine", w, "emit")
            /\ UNCHANGED <<current_price, elocal>>
    /\ lastOp' = Op("set_price", "engine", w)
    /\ UNCHANGED <<df, current_source, emitted, yahooVars, ocrVars,
                   configVars, timerVars, now, obsVars, rangeVars, callVars>>
    /\ UNCHANGED <<lifeVars, snap, committed>>

\* line 190, or 198: the source tag
EngineSetSource(w) ==
    /\ At("engine", w, "source")
    /\ current_source' = elocal[w].source
    /\ Goto("engine", w, IF elocal[w].source = "OCR" THEN "splice" ELSE "emit")
    /\ lastOp' = Op("set_source", "engine", w)
    /\ UNCHANGED <<df, current_price, emitted, yahooVars, ocrVars,
                   configVars, timerVars, now, obsVars, rangeVars, callVars>>
    /\ UNCHANGED <<lifeVars, elocal, snap, committed>>

\* lines 205-217, or 219-228: the bar updated in place, or a bar appended
EngineSplice(w) ==
    /\ At("engine", w, "splice")
    /\ IF df = <<>>
       THEN /\ Goto("engine", w, "emit")
            /\ UNCHANGED <<df, committed>>
       ELSE IF InIndex(df, now)
       THEN /\ df' = SpliceOcrPrice(df, now, elocal[w].ocr_price)
            /\ committed' = df'
            /\ Goto("engine", w, "emit")
       ELSE /\ df' = Append(df, NewBar(df, now, elocal[w].ocr_price))
            /\ Goto("engine", w, "resort")
            /\ UNCHANGED committed
    /\ lastOp' = Op("splice", "engine", w)
    /\ UNCHANGED <<current_price, current_source, emitted, yahooVars, ocrVars,
                   configVars, timerVars, now, obsVars, rangeVars, callVars>>
    /\ UNCHANGED <<lifeVars, elocal, snap>>

\* line 229
EngineResort(w) ==
    /\ At("engine", w, "resort")
    /\ df' = SortIndex(df)
    /\ committed' = df'
    /\ Goto("engine", w, "emit")
    /\ lastOp' = Op("splice_sort", "engine", w)
    /\ UNCHANGED <<current_price, current_source, emitted, yahooVars, ocrVars,
                   configVars, timerVars, now, obsVars, rangeVars, callVars>>
    /\ UNCHANGED <<lifeVars, elocal, snap>>

\* line 201
EngineEmit(w) ==
    /\ At("engine", w, "emit")
    /\ emitted' = <<current_price, current_source>>
    /\ Goto("engine", w, "signals")
    /\ lastOp' = Op("emit", "engine", w)
    /\ UNCHANGED <<df, current_price, current_source, yahooVars, ocrVars,
                   configVars, timerVars, now, obsVars, rangeVars, callVars>>
    /\ UNCHANGED <<lifeVars, elocal, snap, committed>>

\* lines 165-166: _compute_signals and _update_opening_range read the store
EngineSignals(w) ==
    /\ At("engine", w, "signals")
    /\ SetOpeningRange(UpdateOpeningRange(OpeningRange, df, now))
    /\ Goto("engine", w, "loop")
    /\ SetLocals(w, NoLocals)
    /\ lastOp' = Op("signals", "engine", w)
    /\ UNCHANGED <<storeVars, yahooVars, ocrVars, configVars, timerVars, now, obsVars,
                   callVars>>
    /\ UNCHANGED <<lifeVars, snap, committed>>

YahooWorker(w) == LoopTest("yahoo", w, "cycle") \/ YahooFetch(w)
OcrWorker(w) == OcrStartup(w) \/ LoopTest("ocr", w, "cycle") \/ OcrCapture(w)
EngineWorker(w) ==
    \/ LoopTest("engine", w, "yahoo")
    \/ EngineReadYahoo(w)
    \/ EngineMergeRow(w)
    \/ EngineMergeSort(w)
    \/ EngineSetPrice(w)
    \/ EngineSetSource(w)
    \/ EngineSplice(w)
    \/ EngineResort(w)
    \/ EngineEmit(w)
    \/ EngineSignals(w)

InitThreads ==
    /\ InitCommon
    /\ NoCalls
    /\ DefaultConfig
    /\ now = MaxTime + 1

\* the application as main.py runs it: the engine is started once
NextThreads ==
    \/ CallStartEngine
    \/ ReadStore
    \/ \E w \in Workers : YahooWorker(w)
    \/ \E w \in Workers : OcrWorker(w)
    \/ \E w \in Workers : EngineWorker(w)
    \/ \E c \in Comps, w \in Workers : WorkerRaise(c, w)

SpecThreads == InitThreads /\ [][NextThreads]_vars


(***************************************************************************)
(* SpecLife: start and stop calls on the three components in any order,    *)
(* with up to MaxWorkers threads of a component alive.  A cycle of a       *)
(* worker loop is one step, or raises.                                     *)
(***************************************************************************)
\* what the feeds meet here: minute 1 of the reference source, and a screen
\* region with no price in it
LifeDownload == [ok |-> TRUE, rows |-> <<YahooBar(1)>>]
LifeCapture == Recognised(<<>>)

LifeYahooCycle(w) ==
    /\ At("yahoo", w, "cycle")
    /\ latest_data' = FetchData(latest_data, LifeDownload)
    /\ Goto("yahoo", w, "loop")
    /\ lastOp' = Op("fetch", "yahoo", w)
    /\ UNCHANGED <<storeVars, ocrVars, configVars, timerVars, now, obsVars, rangeVars, callVars>>
    /\ UNCHANGED <<lifeVars, elocal, snap, committed>>

LifeOcrCycle(w) ==
    /\ At("ocr", w, "cycle")
    /\ CaptureAndPublish(LifeCapture)
    /\ Goto("ocr", w, "loop")
    /\ lastOp' = Op("capture", "ocr", w)
    /\ UNCHANGED <<storeVars, yahooVars, configVars, timerVars, now, obsVars, rangeVars, callVars>>
    /\ UNCHANGED <<lifeVars, elocal, snap, committed>>

LifeEngineCycle(w) ==
    /\ At("engine", w, "cycle")
    /\ MergeSpliceEmit
    /\ SetOpeningRange(UpdateOpeningRange(OpeningRange, df', now))
    /\ Goto("engine", w, "loop")
    /\ lastOp' = Op("update", "engine", w)
    /\ UNCHANGED <<yahooVars, ocrVars, configVars, timerVars, now, obsVars, callVars>>
    /\ UNCHANGED <<lifeVars, elocal, snap, committed>>

NextLife ==
    \/ \E c \in {"yahoo", "ocr"} : CallStartFeed(c)
    \/ \E c \in {"yahoo", "ocr"} : CallStopFeed(c)
    \/ CallStartEngine
    \/ CallStopEngine
    \/ \E c \in Comps, w \in Workers : LoopTest(c, w, "cycle")
    \/ \E w \in Workers : OcrStartup(w)
    \/ \E w \in Workers : LifeYahooCycle(w)
    \/ \E w \in Workers : LifeOcrCycle(w)
    \/ \E w \in Workers : LifeEngineCycle(w)
    \/ \E c \in Comps, w \in Workers : WorkerRaise(c, w)

SpecLife == InitThreads /\ [][NextLife]_vars

(***************************************************************************)
(* SpecStop: the engine started and stopped as the application does it    *)
(* (main.py 48 and 62, main_window.py 290), with the scheduling of the     *)
(* worker threads stated.  A live thread is a daemon thread of the         *)
(* interpreter: it gets to run its next step (the loop test after          *)
(* stop_event.wait(interval) returns, at the latest after the interval;    *)
(* the body of a cycle; the except clause).                                *)
(***************************************************************************)
WorkerStep(c, w) ==
    \/ LoopTest(c, w, "cycle")
    \/ (c = "ocr" /\ OcrStartup(w))
    \/ (c = "yahoo" /\ LifeYahooCycle(w))
    \/ (c = "ocr" /\ LifeOcrCycle(w))
    \/ (c = "engine" /\ LifeEngineCycle(w))
    \/ WorkerRaise(c, w)

NextStop ==
    \/ CallStartEngine
    \/ CallStopEngine
    \/ \E c \in Comps, w \in Workers : WorkerStep(c, w)

SpecStop ==
    /\ InitThreads
    /\ [][NextStop]_vars
    /\ \A c \in Comps, w \in Workers : WF_vars(WorkerStep(c, w))

(***************************************************************************)
(* Signal engine: SignalEngine.generate_signal, confluence_analysis and    *)
(* _analyze_bias (signals.py).  An indicator value is an integer or NaN;   *)
(* a score is kept in tenths of a point until int() truncates it.  A frame *)
(* is what these functions read of a DataFrame: its length, its columns,   *)
(* its last row, the mean volume of its last 20 rows and the last rows of  *)
(* the resampled frames.                                                   *)
(***************************************************************************)
NaN == 0 - 1000000

\* comparisons of floats: every comparison with NaN is False
Lt(a, b) == a # NaN /\ b # NaN /\ a < b
Gt(a, b) == a # NaN /\ b # NaN /\ a > b
Le(a, b) == a # NaN /\ b # NaN /\ a <= b
Ge(a, b) == a # NaN /\ b # NaN /\ a >= b

BarColumns == {"Open", "High", "Low", "Close", "Volume"}
IndicatorColumns ==
    {"EMA9", "EMA21", "EMA50", "MACD", "MACDsig", "MACDhist", "RSI14",
     "StochK", "StochD", "BBmid", "BBup", "BBlo", "VWAP"}
\* the columns _create_timeframes gives a resampled frame (lines 224-246)
FrameColumns ==
    BarColumns \cup {"EMA9", "EMA21", "EMA50", "MACD", "MACDsig", "RSI14",
                     "BBmid", "BBup", "BBlo"}

Rule(delta, why) == <<[d |-> delta, why |-> why]>>
NoRule == <<>>
RECURSIVE SumDeltas(_)
SumDeltas(rs) == IF rs = <<>> THEN 0 ELSE rs[1].d + SumDeltas(Tail(rs))
Reasons_byclock(rs) ==
    [i \in 1..Len(rs) |-> rs[IF now = 1 THEN i ELSE Len(rs) + 1 - i].why]
Reasons(rs) == [i \in 1..Len(rs) |-> rs[i].why]

\* int(score) on a score in tenths, then max(0, min(100, .))
Truncate(tenths) ==
    IF tenths >= 0 THEN tenths \div 10 ELSE 0 - ((0 - tenths) \div 10)
Clamp_off(score) == score
Clamp(score) == Max(0, Min(100, score))

\* row[col] raises KeyError on a column the row lacks
Lacks(row, cols) == ~(cols \subseteq row.columns)
Raised == [raised |-> TRUE]

\* ---- _analyze_bias (lines 129-191)
BiasEma(row) ==
    IF Lt(row.Close, row.EMA9) /\ Lt(row.EMA9, row.EMA21) /\ Lt(row.EMA21, row.EMA50)
    THEN Rule(100, "Complete bear EMA stack")
    ELSE IF Gt(row.Close, row.EMA9) /\ Gt(row.EMA9, row.EMA21) /\ Gt(row.EMA21, row.EMA50)
    THEN Rule(0 - 100, "Complete bull EMA stack")
    ELSE IF Lt(row.Close, row.EMA9) THEN Rule(40, "Below fast EMA")
    ELSE IF Gt(row.Close, row.EMA9) THEN Rule(0 - 40, "Above fast EMA")
    ELSE NoRule

BiasVwap(row) ==
    LET vwap == IF "VWAP" \in row.columns THEN row.VWAP ELSE NaN
    IN  IF vwap = NaN THEN NoRule
        ELSE IF Lt(row.Close, vwap) THEN Rule(40, "Below VWAP")
        ELSE Rule(0 - 20, "Above VWAP")

BiasMacd(row) ==
    IF Lt(row.MACD, row.MACDsig) THEN Rule(40, "MACD bearish")
    ELSE Rule(0 - 20, "MACD bullish")

BiasRsi(row) ==
    IF Ge(row.RSI14, 70) THEN Rule(60, "RSI overbought")
    ELSE IF Le(row.RSI14, 30) THEN Rule(0 - 40, "RSI oversold")
    ELSE NoRule

BiasBands(row) ==
    IF "BBup" \in row.columns /\ Gt(row.Close, row.BBup)
    THEN Rule(60, "Outside upper band")
    ELSE IF "BBlo" \in row.columns /\ Lt(row.Close, row.BBlo)
    THEN Rule(0 - 30, "Outside lower band")
    ELSE NoRule

BiasLabel(final_score) ==
    IF final_score >= 65 THEN "BEARISH"
    ELSE IF final_score <= 35 THEN "BULLISH"
    ELSE "NEUTRAL"

AnalyzeBias(row) ==
    IF Lacks(row, {"Close", "EMA9", "EMA21", "EMA50", "MACD", "MACDsig", "RSI14"})
    THEN Raised
    ELSE LET rules == BiasEma(row) \o BiasVwap(row) \o BiasMacd(row)
                          \o BiasRsi(row) \o BiasBands(row)
             final_score == Clamp(Truncate(500 + SumDeltas(rules)))
         IN  [raised |-> FALSE,
              bias |-> BiasLabel(final_score),
              score |-> final_score,
              reasons |-> Reasons(rules)]

\* ---- generate_signal (lines 27-33)
GenerateSignal(frame) ==
    IF frame.n < 10
    THEN [raised |-> FALSE, bias |-> "NEUTRAL", score |-> 50,
          reasons |-> <<"Insufficient data">>]
    ELSE AnalyzeBias(frame.latest)

\* ---- confluence_analysis (lines 35-127)
\* lines 48-56: one higher timeframe; 0.7 * weight is 7 tenths per point
BearishTrend(tf) ==
    IF tf = "4h" THEN "4h bearish trend"
    ELSE IF tf = "60m" THEN "60m bearish trend" ELSE "15m bearish trend"
BullishTrend(tf) ==
    IF tf = "4h" THEN "4h bullish trend"
    ELSE IF tf = "60m" THEN "60m bullish trend" ELSE "15m bullish trend"
HigherTimeframe(frame, tf, weight) ==
    IF tf \notin DOMAIN frame.frames THEN NoRule
    ELSE LET tf_bias == AnalyzeBias(frame.frames[tf]).bias
         IN  IF tf_bias = "BEARISH" THEN Rule(10 * weight, BearishTrend(tf))
             ELSE IF tf_bias = "BULLISH" THEN Rule(0 - 7 * weight, BullishTrend(tf))
             ELSE NoRule

ConfEma(latest) ==
    IF Lt(latest.Close, latest.EMA9) /\ Lt(latest.EMA9, latest.EMA21)
       /\ Lt(latest.EMA21, latest.EMA50)
    THEN Rule(80, "Complete bear EMA stack")
    ELSE IF Lt(latest.EMA9, latest.EMA21) /\ Lt(latest.EMA21, latest.EMA50)
    THEN Rule(40, "Partial bear EMA stack")
    ELSE NoRule

ConfMacd(latest) ==
    IF Lt(latest.MACD, latest.MACDsig) /\ Lt(latest.MACDhist, 0)
    THEN Rule(50, "MACD bearish momentum")
    ELSE NoRule

ConfRsi(latest) ==
    IF Ge(latest.RSI14, 70) THEN Rule(60, "RSI overbought (>70)")
    ELSE IF Ge(latest.RSI14, 60) THEN Rule(30, "RSI elevated (>60)")
    ELSE IF Le(latest.RSI14, 30) THEN Rule(0 - 40, "RSI oversold (<30)")
    ELSE NoRule

ConfBands(latest) ==
    IF Gt(latest.Close, latest.BBup)
    THEN Rule(60, "Price above upper Bollinger Band")
    ELSE IF Lt(latest.Close, latest.BBlo)
    THEN Rule(0 - 30, "Price below lower Bollinger Band")
    ELSE NoRule

ConfVwap(latest) ==
    IF latest.VWAP = NaN THEN NoRule
    ELSE IF Lt(latest.Close, latest.VWAP) THEN Rule(40, "Below session VWAP")
    ELSE Rule(0 - 20, "Above session VWAP")

\* lines 103-108
ConfOpeningRange_unguarded(latest, high, low, ready) ==
    IF low # NoPrice /\ Lt(latest.Close, low)
    THEN Rule(80, "Opening Range low break")
    ELSE IF high # NoPrice /\ Gt(latest.Close, high)
    THEN Rule(0 - 50, "Opening Range high break")
    ELSE NoRule
ConfOpeningRange(latest, high, low, ready) ==
    IF ready /\ low # NoPrice /\ Lt(latest.Close, low)
    THEN Rule(80, "Opening Range low break")
    ELSE IF ready /\ high # NoPrice /\ Gt(latest.Close, high)
    THEN Rule(0 - 50, "Opening Range high break")
    ELSE NoRule

ConfStochastic(latest) ==
    IF Lt(latest.StochK, latest.StochD) /\ Gt(latest.StochK, 80)
    THEN Rule(40, "Stochastic bear cross from overbought")
    ELSE NoRule

\* lines 116-122: current_volume > avg_volume * 1.5, on the score so far
ConfVolume(frame, tenths) ==
    IF frame.n >= 20
       /\ frame.latest.Volume # NaN /\ frame.avg_volume # NaN
       /\ 2 * frame.latest.Volume > 3 * frame.avg_volume
       /\ tenths > 500
    THEN Rule(30, "High volume confirms bear signal")
    ELSE NoRule

FirstEight_all(reasons) == reasons
FirstEight(reasons) == SubSeq(reasons, 1, Min(8, Len(reasons)))

ConfluenceAnalysis(frame, high, low, ready) ==
    IF frame.n < 30
    THEN [raised |-> FALSE, score |-> 50,
          reasons |-> <<"Warming up - need more data">>]
    ELSE IF Lacks(frame.latest, BarColumns \cup (IndicatorColumns \ {"BBmid"}))
    THEN Raised
    ELSE LET latest == frame.latest
             rules == HigherTimeframe(frame, "4h", 15)
                          \o HigherTimeframe(frame, "60m", 10)
                          \o HigherTimeframe(frame, "15m", 8)
                          \o ConfEma(latest) \o ConfMacd(latest)
                          \o ConfRsi(latest) \o ConfBands(latest)
                          \o ConfVwap(latest)
                          \o ConfOpeningRange(latest, high, low, ready)
                          \o ConfStochastic(latest)
             all == rules \o ConfVolume(frame, 500 + SumDeltas(rules))
         IN  [raised |-> FALSE,
              score |-> Clamp(Truncate(500 + SumDeltas(all))),
              reasons |-> FirstEight(Reasons(all))]

(***************************************************************************)
(* SpecSignals: generate_signal and confluence_analysis called, at any     *)
(* minute and in any order, on a frame and an opening range drawn from     *)
(* the sets below.                                                         *)
(***************************************************************************)
MinBars == 50       \* indicators.py 17: below it the frame has bar columns only

\* the last row of a frame with bar columns only
BarRow ==
    [columns |-> BarColumns,
     Open |-> 100, High |-> 100, Low |-> 100, Close |-> 100, Volume |-> 100]

\* the last row of an indicator-bearing frame, Close 100
IndicatorRow(ema, macd, rsi, bands, vwap, stoch, volume) ==
    [columns |-> BarColumns \cup IndicatorColumns,
     Open |-> 100, High |-> 100, Low |-> 100, Close |-> 100, Volume |-> volume,
     EMA9 |-> ema[1], EMA21 |-> ema[2], EMA50 |-> ema[3],
     MACD |-> macd[1], MACDsig |-> macd[2], MACDhist |-> macd[3],
     RSI14 |-> rsi, BBmid |-> bands[1], BBup |-> bands[2], BBlo |-> bands[3],
     VWAP |-> vwap, StochK |-> stoch[1], StochD |-> stoch[2]]

EmaChoices ==
    {<<NaN, NaN, NaN>>, <<101, 102, 103>>, <<99, 102, 103>>, <<99, 98, 97>>}
MacdChoices == {<<NaN, NaN, NaN>>, <<0 - 2, 0 - 1, 0 - 1>>}
RsiChoices == {NaN, 70, 60, 30}
BandChoices == {<<NaN, NaN, NaN>>, <<95, 99, 91>>, <<105, 109, 101>>}
VwapChoices == {NaN, 101, 99}
StochChoices == {<<NaN, NaN>>, <<85, 90>>}
VolumeChoices == {100, 200}

IndicatorRows ==
    {IndicatorRow(ema, macd, rsi, bands, vwap, stoch, volume) :
        ema \in EmaChoices, macd \in MacdChoices, rsi \in RsiChoices,
        bands \in BandChoices, vwap \in VwapChoices, stoch \in StochChoices,
        volume \in VolumeChoices}

\* the last row of a resampled frame: bearish (70), bullish (34), all NaN (48)
FrameRow(ema, macd, rsi) ==
    [columns |-> FrameColumns,
     Open |-> 100, High |-> 100, Low |-> 100, Close |-> 100, Volume |-> 100,
     EMA9 |-> ema[1], EMA21 |-> ema[2], EMA50 |-> ema[3],
     MACD |-> macd[1], MACDsig |-> macd[2], RSI14 |-> rsi,
     BBmid |-> NaN, BBup |-> NaN, BBlo |-> NaN]
BearishRow == FrameRow(<<101, 102, 103>>, <<0 - 2, 0 - 1>>, 70)
BullishRow == FrameRow(<<99, 98, 97>>, <<1, 0>>, 30)
NanRow == FrameRow(<<NaN, NaN, NaN>>, <<NaN, NaN>>, NaN)

Timeframes == {"4h", "60m", "15m"}
NoFrames == [tf \in {} |-> NanRow]
FrameChoices ==
    {NoFrames,
     [tf \in Timeframes |-> BearishRow],
     [tf \in Timeframes |-> IF tf = "4h" THEN BearishRow
                            ELSE IF tf = "60m" THEN NanRow ELSE BullishRow]}

\* [or_high, or_low, or_ready]: no range, a range below the close, one above
RangeChoices ==
    {[high |-> h[1], low |-> h[2], ready |-> r] :
        h \in {<<NoPrice, NoPrice>>, <<90, 80>>, <<120, 110>>}, r \in BOOLEAN}

SignalCall(frame, range) ==
    [fn |-> "signals", frame |-> frame,
     or_high |-> range.high, or_low |-> range.low, or_ready |-> range.ready]

\* frames of 0..MinBars-1 bars, as compute_indicators returns them, and
\* indicator-bearing frames of MinBars bars
SignalInputs ==
    {SignalCall([n |-> k, latest |-> BarRow, avg_volume |-> 100,
                 frames |-> IF k = 0 THEN NoFrames ELSE f], range) :
        k \in 0..(MinBars - 1), f \in FrameChoices, range \in RangeChoices}
    \cup
    {SignalCall([n |-> MinBars, latest |-> row, avg_volume |-> 100,
                 frames |-> f], range) :
        row \in IndicatorRows, f \in FrameChoices, range \in RangeChoices}

InitSignals ==
    /\ InitCommon
    /\ DefaultConfig
    /\ now = 1
    /\ args \in SignalInputs
    /\ ret = NoCall

CallGenerateSignal ==
    /\ args.fn = "signals"
    /\ ret' = [fn |-> "generate_signal", out |-> GenerateSignal(args.frame)]
    /\ lastOp' = Op("generate_signal", "signals", 0)
    /\ UNCHANGED <<storeVars, yahooVars, ocrVars, configVars, timerVars, now, obsVars,
                   rangeVars, args>>
    /\ UNCHANGED <<threadVars, threadObs>>

CallConfluence ==
    /\ args.fn = "signals"
    /\ ret' = [fn |-> "confluence_analysis",
               out |-> ConfluenceAnalysis(args.frame, args.or_high,
                                          args.or_low, args.or_ready)]
    /\ lastOp' = Op("confluence_analysis", "signals", 0)
    /\ UNCHANGED <<storeVars, yahooVars, ocrVars, configVars, timerVars, now, obsVars,
                   rangeVars, args>>
    /\ UNCHANGED <<threadVars, threadObs>>

NextSignals == CallGenerateSignal \/ CallConfluence \/ Tick

SpecSignals == InitSignals /\ [][NextSignals]_vars

(***************************************************************************)
(* Indicator engine: IndicatorEngine.compute_indicators (indicators.py).   *)
(* A bar series is a sequence of [Open, High, Low, Close, Volume]; a price *)
(* is an integer of 1/Scale point and the bars drawn are whole points.     *)
(* The moving averages, MACD and VWAP are fixed-point values rounded down. *)
(* RSI and the Bollinger bands are computed exactly and rounded so that    *)
(* every comparison the signal engine makes on them has the exact result:  *)
(* RSI toward 50 (it is compared with 30, 60 and 70), the upper band down  *)
(* and the lower band up to a whole point (they are compared with Close).  *)
(***************************************************************************)
Scale == 10000
Points(v) == v \div Scale

RECURSIVE RollingSum(_, _, _)
\* the sum of f over the window of `length` entries that ends at t
RollingSum(f, length, t) ==
    IF length = 0 THEN 0 ELSE f[t] + RollingSum(f, length - 1, t - 1)
RECURSIVE RollingMax(_, _, _)
RollingMax(f, length, t) ==
    IF length = 1 THEN f[t] ELSE Max(f[t], RollingMax(f, length - 1, t - 1))
RECURSIVE RollingMin(_, _, _)
RollingMin(f, length, t) ==
    IF length = 1 THEN f[t] ELSE Min(f[t], RollingMin(f, length - 1, t - 1))

\* ---- _ema (lines 51-53): ewm(span, adjust=False).mean(), that is
\* y[1] = x[1] and y[t] = (2 x[t] + (span - 1) y[t-1]) / (span + 1)
RECURSIVE EmaUpTo(_, _, _)
EmaUpTo(x, span, t) ==
    IF t = 0 THEN <<>>
    ELSE IF t = 1 THEN <<x[1]>>
    ELSE LET y == EmaUpTo(x, span, t - 1)
         IN  Append(y, ((span - 1) * y[t - 1] + 2 * x[t]) \div (span + 1))
Ema(x, span) == EmaUpTo(x, span, Len(x))

\* ---- _rsi (lines 55-63)
\* a quotient rounded toward 50
TowardFifty(num, den) ==
    IF num >= 50 * den THEN num \div den ELSE (num + den - 1) \div den
\* row 1 of series.diff() is NaN, so the first full window ends at length + 1;
\* rs = up / down.replace(0, nan), rsi = 100 - 100 / (1 + rs)
Rsi(close, length, t) ==
    IF t < length + 1 THEN NaN
    ELSE LET gain == [i \in 2..Len(close) |-> Max(close[i] - close[i - 1], 0)]
             loss == [i \in 2..Len(close) |-> Max(close[i - 1] - close[i], 0)]
             up == RollingSum(gain, length, t)
             down == RollingSum(loss, length, t)
         IN  IF down = 0 THEN NaN ELSE TowardFifty(100 * up, up + down)

\* ---- _stochastic_k (lines 65-71) and StochD (line 38)
StochasticK(high, low, close, k, t) ==
    IF t < k THEN NaN
    ELSE LET lowest_low == RollingMin(low, k, t)
             highest_high == RollingMax(high, k, t)
         IN  IF highest_high = lowest_low THEN NaN
             ELSE (100 * (close[t] - lowest_low)) \div (highest_high - lowest_low)
StochasticD(high, low, close, t) ==
    IF t < 3 THEN NaN
    ELSE LET ks == [i \in (t - 2)..t |-> StochasticK(high, low, close, 14, i)]
         IN  IF \E i \in DOMAIN ks : ks[i] = NaN THEN NaN
             ELSE (ks[t - 2] + ks[t - 1] + ks[t]) \div 3

\* ---- _macd (lines 73-82)
Macd(x) ==
    LET ema_fast == Ema(x, 12)
        ema_slow == Ema(x, 26)
        macd_line == [t \in 1..Len(x) |-> ema_fast[t] - ema_slow[t]]
        macd_signal == Ema(macd_line, 9)
    IN  [line |-> macd_line, signal |-> macd_signal,
         histogram |-> [t \in 1..Len(x) |-> macd_line[t] - macd_signal[t]]]

\* ---- _bollinger_bands (lines 84-92): rolling mean and population
\* standard deviation; with s the window's sum and q its sum of squares,
\* mean +- 2 std = (s +- sqrt(4 (length q - s s))) / length
RootCap == 46340
RECURSIVE RootBetween(_, _, _)
RootBetween(v, lo, hi) ==
    IF hi - lo <= 1 THEN lo
    ELSE LET mid == (lo + hi) \div 2
         IN  IF mid * mid <= v THEN RootBetween(v, mid, hi)
             ELSE RootBetween(v, lo, mid)
Isqrt(v) == RootBetween(v, 0, RootCap)
BollingerBands(close, length, t) ==
    IF t < length THEN [middle |-> NaN, upper |-> NaN, lower |-> NaN]
    ELSE LET pts == [i \in 1..Len(close) |-> Points(close[i])]
             s == RollingSum(pts, length, t)
             q == RollingSum([i \in 1..Len(close) |-> pts[i] * pts[i]], length, t)
             root == Isqrt(4 * (length * q - s * s))
         IN  [middle |-> (s * Scale) \div length,
              upper |-> Scale * ((s + root) \div length),
              lower |-> Scale * (0 - ((root - s) \div length))]

\* ---- _session_vwap (lines 94-109): a zero volume counts as 1
SessionVwap(bars, t) ==
    LET volume == [i \in 1..Len(bars) |->
                      IF bars[i].Volume = 0 THEN 1 ELSE bars[i].Volume]
        typical3 == [i \in 1..Len(bars) |->
                        Points(bars[i].High) + Points(bars[i].Low)
                            + Points(bars[i].Close)]
        weighted == [i \in 1..Len(bars) |-> typical3[i] * volume[i]]
    IN  (RollingSum(weighted, t, t) * Scale) \div (3 * RollingSum(volume, t, t))

\* ---- compute_indicators (lines 15-49)
BarOnly(bar) ==
    [columns |-> BarColumns, Open |-> bar.Open, High |-> bar.High,
     Low |-> bar.Low, Close |-> bar.Close, Volume |-> bar.Volume]
\* line 17: df.empty or len(df) < 50
TooShort_thirty(bars) == Len(bars) = 0 \/ Len(bars) < 30
TooShort(bars) == Len(bars) = 0 \/ Len(bars) < MinBars
ComputeIndicators(bars) ==
    IF TooShort(bars)
    THEN [t \in 1..Len(bars) |-> BarOnly(bars[t])]
    ELSE LET close == [t \in 1..Len(bars) |-> bars[t].Close]
             high == [t \in 1..Len(bars) |-> bars[t].High]
             low == [t \in 1..Len(bars) |-> bars[t].Low]
             ema9 == Ema(close, 9)
             ema21 == Ema(close, 21)
             ema50 == Ema(close, 50)
             macd == Macd(close)
         IN  [t \in 1..Len(bars) |->
                LET bands == BollingerBands(close, 20, t)
                IN  [columns |-> BarColumns \cup IndicatorColumns,
                     Open |-> bars[t].Open, High |-> bars[t].High,
                     Low |-> bars[t].Low, Close |-> bars[t].Close,
                     Volume |-> bars[t].Volume,
                     EMA9 |-> ema9[t], EMA21 |-> ema21[t], EMA50 |-> ema50[t],
                     MACD |-> macd.line[t], MACDsig |-> macd.signal[t],
                     MACDhist |-> macd.histogram[t],
                     RSI14 |-> Rsi(close, 14, t),
                     StochK |-> StochasticK(high, low, close, 14, t),
                     StochD |-> StochasticD(high, low, close, t),
                     BBmid |-> bands.middle, BBup |-> bands.upper,
                     BBlo |-> bands.lower,
                     VWAP |-> SessionVwap(bars, t)]]

\* the frame generate_signal reads of a computed series
FrameOf(rows) ==
    [n |-> Len(rows),
     latest |-> IF Len(rows) = 0 THEN BarRow ELSE rows[Len(rows)]]

(***************************************************************************)
(* SpecIndicators: compute_indicators, _rsi and the single-row bias of the *)
(* computed series, each called once on a bar series drawn from the shapes *)
(* below, of every length up to MaxBars.                                   *)
(***************************************************************************)
MaxBars == 60
StartPoints == 150
Turn == 30

\* the distance after k steps of alternately a and b points
Travelled(a, b, k) == a * ((k + 1) \div 2) + b * (k \div 2)

\* the close of bar i, in points
CloseAt(shape, i) ==
    IF shape.kind = "declining" THEN StartPoints - Travelled(shape.a, shape.b, i - 1)
    ELSE IF shape.kind = "rising" THEN StartPoints + Travelled(shape.a, shape.b, i - 1)
    ELSE IF shape.kind = "vee"
    THEN StartPoints - shape.a * Min(i - 1, Turn) + shape.b * Max(i - 1 - Turn, 0)
    ELSE IF shape.kind = "dip"
    THEN StartPoints + shape.a * (i - 1) - (shape.a + shape.b) * ((i - 1) \div 10)
    ELSE IF shape.kind = "sawtooth"
    THEN StartPoints + (IF i % 2 = 0 THEN shape.a ELSE 0)
    ELSE StartPoints

Shapes ==
    {[kind |-> "declining", a |-> a, b |-> b] : a \in 1..2, b \in 1..2}
    \cup {[kind |-> "rising", a |-> a, b |-> 1] : a \in 1..2}
    \cup {[kind |-> k, a |-> 2, b |-> 1] : k \in {"vee", "dip", "sawtooth", "flat"}}

\* volumes: steady, or none on every other bar
VolumeAt(gaps, i) == IF gaps /\ i % 2 = 1 THEN 0 ELSE 2

BarAt(shape, gaps, i) ==
    [Open |-> CloseAt(shape, i) * Scale,
     High |-> (CloseAt(shape, i) + 1) * Scale,
     Low |-> (CloseAt(shape, i) - 1) * Scale,
     Close |-> CloseAt(shape, i) * Scale,
     Volume |-> VolumeAt(gaps, i)]

Series(shape, gaps, n) == [i \in 1..n |-> BarAt(shape, gaps, i)]

IndicatorInputs ==
    {[fn |-> "indicators", bars |-> Series(shape, gaps, n)] :
        shape \in Shapes, gaps \in BOOLEAN, n \in 0..MaxBars}

InitIndicators ==
    /\ InitCommon
    /\ DefaultConfig
    /\ now = 1
    /\ args \in IndicatorInputs
    /\ ret = NoCall

CallComputeIndicators ==
    /\ args.fn = "indicators"
    /\ ret = NoCall
    /\ ret' = [fn |-> "compute_indicators", out |-> ComputeIndicators(args.bars)]
    /\ lastOp' = Op("compute_indicators", "indicators", 0)
    /\ UNCHANGED <<storeVars, yahooVars, ocrVars, configVars, timerVars, now, obsVars,
                   rangeVars, args>>
    /\ UNCHANGED <<threadVars, threadObs>>

CallRsi ==
    /\ args.fn = "indicators"
    /\ ret = NoCall
    /\ ret' = [fn |-> "_rsi",
               out |-> LET close == [t \in 1..Len(args.bars) |-> args.bars[t].Close]
                       IN  [t \in 1..Len(args.bars) |-> Rsi(close, 14, t)]]
    /\ lastOp' = Op("_rsi", "indicators", 0)
    /\ UNCHANGED <<storeVars, yahooVars, ocrVars, configVars, timerVars, now, obsVars,
                   rangeVars, args>>
    /\ UNCHANGED <<threadVars, threadObs>>

\* generate_signal(compute_indicators(df)), as the processing loop calls it
CallBias ==
    /\ args.fn = "indicators"
    /\ ret = NoCall
    /\ LET frame == FrameOf(ComputeIndicators(args.bars))
       IN  ret' = [fn |-> "generate_signal", latest |-> frame.latest,
                   out |-> GenerateSignal(frame)]
    /\ lastOp' = Op("generate_signal", "indicators", 0)
    /\ UNCHANGED <<storeVars, yahooVars, ocrVars, configVars, timerVars, now, obsVars,
                   rangeVars, args>>
    /\ UNCHANGED <<threadVars, threadObs>>

NextIndicators == CallComputeIndicators \/ CallRsi \/ CallBias

SpecIndicators == InitIndicators /\ [][NextIndicators]_vars

(***************************************************************************)
(* Region locator: DOMLocator.auto_locate (data_feeds.py 92-163).  A text  *)
(* is a sequence of characters; a word of data["text"] comes with the left *)
(* edge, top edge and height of its box.                                   *)
(***************************************************************************)
PRICE_WORDS ==
    {<<"P", "R", "I", "C", "E">>, <<"P", "R", "1", "C", "E">>,
     <<"P", "R", "l", "C", "E">>, <<"P", "R", "l", "C">>,
     <<"R", "I", "C", "E">>}

Digits == {"0", "1", "2", "3", "4", "5", "6", "7", "8", "9"}
Whitespace == {" "}

\* str.upper, one character
UpperChar(c) ==
    IF c = "p" THEN "P" ELSE IF c = "r" THEN "R" ELSE IF c = "i" THEN "I"
    ELSE IF c = "c" THEN "C" ELSE IF c = "e" THEN "E" ELSE IF c = "l" THEN "L"
    ELSE IF c = "b" THEN "B" ELSE IF c = "d" THEN "D" ELSE c
Upper(text) == [i \in 1..Len(text) |-> UpperChar(text[i])]

\* str.strip
RECURSIVE StripLeft(_)
StripLeft(text) ==
    IF text # <<>> /\ Head(text) \in Whitespace THEN StripLeft(Tail(text))
    ELSE text
RECURSIVE StripRight(_)
StripRight(text) ==
    IF text # <<>> /\ text[Len(text)] \in Whitespace
    THEN StripRight(SubSeq(text, 1, Len(text) - 1))
    ELSE text
Strip(text) == StripRight(StripLeft(text))

\* re.search(r'\d', text)
HasDigit(text) == \E i \in 1..Len(text) : text[i] \in Digits

\* lines 127-130: the test of the header loop on one text
IsHeader(text) == text # <<>> /\ Upper(Strip(text)) \in PRICE_WORDS
\* line 145: the test of the fallback loop on one text
IsNumeric(text) == text # <<>> /\ HasDigit(Strip(text))

search_right_px == 520
Monitor == [left |-> 0, top |-> 0, width |-> 1920, height |-> 1080]
\* lines 106-113
ScanBox ==
    LET scan_width == Min(search_right_px, Monitor.width)
    IN  [left |-> Monitor.left + Monitor.width - scan_width,
         top |-> Monitor.top + 50,
         width |-> scan_width,
         height |-> Monitor.height - 100]

NoRegion == [found |-> FALSE]
\* lines 131-140
HeaderRegion(word) ==
    [found |-> TRUE,
     left |-> Max(0, ScanBox.left + word.left - 12),
     top |-> Max(0, ScanBox.top + word.top + word.height + 6),
     width |-> 220, height |-> 880]
\* lines 148-157
NumericRegion(x_positions) ==
    [found |-> TRUE,
     left |-> Max(0, ScanBox.left + Median(x_positions) - 40),
     top |-> ScanBox.top + 60,
     width |-> 220, height |-> ScanBox.height - 120]

RECURSIVE XPositions(_)
XPositions(words) ==
    IF words = <<>> THEN <<>>
    ELSE (IF IsNumeric(Head(words).text) THEN <<Head(words).left>> ELSE <<>>)
             \o XPositions(Tail(words))

\* ok is FALSE when the grab, the threshold or the recognition raises
\* (lines 161-163)
AutoLocate(capture) ==
    IF ~capture.ok THEN NoRegion
    ELSE LET words == capture.words
             headers == {i \in 1..Len(words) : IsHeader(words[i].text)}
         IN  IF headers # {}
             THEN HeaderRegion(words[CHOOSE i \in headers :
                                        \A j \in headers : i <= j])
             ELSE IF XPositions(words) # <<>>
             THEN NumericRegion(XPositions(words))
             ELSE NoRegion

(***************************************************************************)
(* SpecLocate: auto_locate called once on a capture of up to MaxTokens     *)
(* words drawn from the texts below.                                       *)
(***************************************************************************)
Texts ==
    {<<>>, <<" ">>,
     <<"P", "R", "I", "C", "E">>, <<"p", "r", "i", "c", "e">>,
     <<" ", "P", "r", "i", "c", "e">>, <<"P", "R", "1", "C", "E">>,
     <<"P", "R", "l", "C", "E">>, <<"P", "R", "l", "C">>,
     <<"R", "I", "C", "E">>, <<"B", "I", "D">>,
     <<"1", "2">>, <<" ", "b", "2">>}

WordLefts == {30, 400}
Words == {[text |-> t, left |-> x, top |-> 20, height |-> 14] :
             t \in Texts, x \in WordLefts}

LocateInputs ==
    {[fn |-> "locate", ok |-> FALSE, words |-> <<>>]}
    \cup {[fn |-> "locate", ok |-> TRUE, words |-> w] :
             w \in SeqsUpTo(Words, MaxTokens)}

InitLocate ==
    /\ InitCommon
    /\ DefaultConfig
    /\ now = 1
    /\ args \in LocateInputs
    /\ ret = NoCall

CallAutoLocate ==
    /\ args.fn = "locate"
    /\ ret = NoCall
    /\ ret' = [fn |-> "auto_locate", out |-> AutoLocate(args)]
    /\ lastOp' = Op("auto_locate", "locator", 0)
    /\ UNCHANGED <<storeVars, yahooVars, ocrVars, configVars, timerVars, now, obsVars,
                   rangeVars, args>>
    /\ UNCHANGED <<threadVars, threadObs>>

NextLocate == CallAutoLocate

SpecLocate == InitLocate /\ [][NextLocate]_vars

(***************************************************************************)
(* SpecCycle: the body of the processing loop (engine.py 163-169) with the *)
(* outcome of _compute_signals, on a store that also holds pre-market bars *)
(* (ticker.history is called with prepost=True).  Timestamps below 0 are   *)
(* the minutes of today before the open.                                   *)
(***************************************************************************)
MaxPremarket == 10

\* the bar the reference source reports for the i-th minute before the open
PremarketBar(i) ==
    [ts |-> 0 - i, Open |-> Px(2000, 0), High |-> Px(2000, 50),
     Low |-> Px(2000, 0), Close |-> Px(2000, 50), Volume |-> 10]

\* today's bars as one download returns them: k minutes before the open and
\* the first j minutes of the session
SessionRows(k, j) ==
    [i \in 1..(k + j) |-> IF i <= k THEN PremarketBar(k + 1 - i)
                          ELSE YahooBar(i - k)]

CycleFetch ==
    \E k \in {0, MaxPremarket}, j \in 0..now :
        /\ latest_data' = FetchData(latest_data,
                                    [ok |-> TRUE, rows |-> SessionRows(k, j)])
        /\ lastOp' = Op("fetch", "yahoo", 0)
        /\ UNCHANGED <<storeVars, ocrVars, configVars, timerVars, now, obsVars, rangeVars,
                       callVars>>
        /\ UNCHANGED <<threadVars, threadObs>>

\* _compute_signals (lines 231-258) on store d with opening range r: what it
\* emits, or that it raised
ComputeSignals(d, r) ==
    IF d = <<>> THEN [raised |-> FALSE, emitted |-> FALSE]
    ELSE LET indicators_df == FrameOf(ComputeIndicators(d))
             signal == GenerateSignal(indicators_df)
         IN  IF signal.raised THEN Raised
             ELSE LET conf == ConfluenceAnalysis(
                                  [n |-> indicators_df.n,
                                   latest |-> indicators_df.latest,
                                   avg_volume |-> NaN, frames |-> NoFrames],
                                  r.high, r.low, r.ready)
                  IN  IF conf.raised THEN Raised
                      ELSE [raised |-> FALSE, emitted |-> TRUE,
                            bias |-> signal.bias, confidence |-> signal.score,
                            reasons |-> signal.reasons,
                            conf_score |-> conf.score]

\* lines 164-169: an exception of _compute_signals is caught by the loop and
\* _update_opening_range of that cycle does not run
ProcessingCycle ==
    /\ MergeSpliceEmit
    /\ LET outcome == ComputeSignals(df', OpeningRange)
       IN  /\ ret' = [fn |-> "_compute_signals", out |-> outcome]
           /\ IF outcome.raised
              THEN UNCHANGED rangeVars
              ELSE SetOpeningRange(UpdateOpeningRange(OpeningRange, df', now))
    /\ lastOp' = Op("update", "engine", 0)
    /\ UNCHANGED <<yahooVars, ocrVars, configVars, timerVars, now, obsVars, args>>
    /\ UNCHANGED <<threadVars, threadObs>>

NextCycle == CycleFetch \/ OcrStep \/ ProcessingCycle \/ Tick

SpecCycle == Init /\ [][NextCycle]_vars

(***************************************************************************)
(* SpecUi: the presentation layer's thread beside the three workers of a   *)
(* started engine.  The engine's worker runs statement by statement; the   *)
(* timer of the main window calls get_current_data and the menu calls      *)
(* auto_locate_dom at any point between two statements.                    *)
(***************************************************************************)
\* get_current_data (engine.py 95-136) on store d with the price of record
\* and its tag as the call finds them: the price, source and bias it returns
GetCurrentDataOf(d, price, source) ==
    IF d = <<>>
    THEN [fn |-> "get_current_data", raised |-> FALSE, price |-> 0,
          source |-> "NONE", bias |-> "NEUTRAL"]
    ELSE LET signal == GenerateSignal(FrameOf(ComputeIndicators(d)))
         IN  IF signal.raised
             THEN [fn |-> "get_current_data", raised |-> TRUE]
             ELSE [fn |-> "get_current_data", raised |-> FALSE,
                   price |-> price, source |-> source, bias |-> signal.bias]

\* the call on the UI thread (main_window.py update_all_panels); lines 119
\* and 120 are read here in one step, with no worker statement between them
GetCurrentData ==
    /\ ret' = GetCurrentDataOf(df, current_price, current_source)
    /\ snap' = IF df = <<>> THEN NoData ELSE <<df>>
    /\ df' = StoreAfterRead(df)
    /\ lastOp' = Op("get_current_data", "ui", 0)
    /\ UNCHANGED <<current_price, current_source, emitted, yahooVars, ocrVars,
                   configVars, timerVars, now, obsVars, rangeVars, args>>
    /\ UNCHANGED <<running, stop_event, pc, elocal, committed, history>>

\* MainWindow.auto_locate_dom -> TradingEngine.auto_locate_dom ->
\* OCRFeed.auto_locate, all on the UI thread: it moves the capture region only
UiAutoLocate ==
    /\ lastOp' = Op("locate", "ui", 0)
    /\ UNCHANGED <<dataVars, lifeVars, pc, elocal, snap, committed>>

NextUi ==
    \/ CallStartEngine
    \/ UiAutoLocate
    \/ GetCurrentData
    \/ \E w \in Workers : LoopTest("yahoo", w, "cycle")
    \/ \E w \in Workers : LifeYahooCycle(w)
    \/ \E w \in Workers : OcrWorker(w)
    \/ \E w \in Workers : EngineWorker(w)

SpecUi == InitThreads /\ [][NextUi]_vars

(***************************************************************************)
(* SpecOcrLoop: OCRFeed._ocr_loop with its relocation timer.  The clock    *)
(* counts seconds; an iteration of the loop is one step, taken at the time *)
(* its time.time() call returns.                                           *)
(***************************************************************************)
RelocatePeriod == 30
OcrGrace == 3
MaxGap == 4          \* seconds between two readings of the clock
MaxElapsed == 40     \* seconds the clock runs on after Epoch

\* what the ladder shows here: nothing readable, a price, or a price more
\* than max_jump_pts away from it
LoopCaptures ==
    {CaptureFails, Recognised(<<Px(2000, 25)>>), Recognised(<<Px(2100, 0)>>)}

\* lines 224-225: the periodic relocation is due
RelocationDue == clock - last_auto_locate > RelocatePeriod

\* line 226: no extraction succeeded in the last OcrGrace seconds
NoRecentPrice_always == TRUE
NoRecentPrice == last_ocr_time = NoTime \/ clock - last_ocr_time > OcrGrace

\* line 220: self.auto_locate() before the loop
OcrLoopStartup(w) ==
    /\ At("ocr", w, "startup")
    /\ locates' = locates + 1
    /\ Goto("ocr", w, "loop")
    /\ lastOp' = Op("locate", "ocr", w)
    /\ UNCHANGED <<storeVars, yahooVars, ocrVars, configVars, now, obsVars,
                   rangeVars, callVars>>
    /\ UNCHANGED <<clock, last_auto_locate, last_ocr_time, captures>>
    /\ UNCHANGED <<lifeVars, elocal, snap, committed>>

\* lines 222-235: one iteration of the loop on the given capture
OcrIteration(w) ==
    /\ At("ocr", w, "cycle")
    /\ \E capture \in LoopCaptures :
           /\ CaptureAndPublish(capture)
           /\ lastTokens' = capture
    /\ prevGood' = last_good_price
    /\ last_auto_locate' = IF RelocationDue THEN clock ELSE last_auto_locate
    /\ locates' = IF RelocationDue /\ NoRecentPrice
                  THEN locates + 1 ELSE locates
    /\ last_ocr_time' = IF lastCapture' # NoPrice THEN clock ELSE last_ocr_time
    /\ captures' = Min(captures + 1, 2)
    /\ Goto("ocr", w, "loop")
    /\ lastOp' = Op(IF ~RelocationDue THEN "capture"
                    ELSE IF NoRecentPrice THEN "relocated" ELSE "skipped",
                    "ocr", w)
    /\ UNCHANGED <<storeVars, yahooVars, configVars, now, rangeVars, callVars>>
    /\ UNCHANGED <<clock, lifeVars, elocal, snap, committed>>

\* time passes: in stop_event.wait(ocr_poll_sec), in a capture, in a scan;
\* less than the grace period, or more
Elapse ==
    \E gap \in {OcrGrace - 1, MaxGap} :
        /\ clock + gap <= Epoch + MaxElapsed
        /\ clock' = clock + gap
        /\ lastOp' = Op("elapse", "clock", 0)
        /\ UNCHANGED <<storeVars, yahooVars, ocrVars, configVars, now, obsVars,
                       rangeVars, callVars>>
        /\ UNCHANGED <<last_auto_locate, last_ocr_time, locates, captures>>
        /\ UNCHANGED <<threadVars, threadObs>>

NextOcrLoop ==
    \/ CallStartFeed("ocr")
    \/ \E w \in Workers : OcrLoopStartup(w)
    \/ \E w \in Workers : LoopTest("ocr", w, "cycle")
    \/ \E w \in Workers : OcrIteration(w)
    \/ Elapse

SpecOcrLoop == InitThreads /\ [][NextOcrLoop]_vars

(***************************************************************************)
(* SpecFeeds: the two feeds' cycles alone, each with what it acquired kept *)
(* beside the state.                                                       *)
(***************************************************************************)
\* one cycle of YahooFeed._feed_loop, the download it met kept in args
FetchObserved ==
    \E download \in Downloads :
        /\ latest_data' = FetchData(latest_data, download)
        /\ args' = [fn |-> "_fetch_data", download |-> download]
        /\ lastOp' = Op("fetch", "yahoo", 0)
        /\ UNCHANGED <<storeVars, ocrVars, configVars, timerVars, now, obsVars,
                       rangeVars, ret>>
        /\ UNCHANGED <<threadVars, threadObs>>

NextFeeds == FetchObserved \/ ExtractStep

SpecFeeds == Init /\ [][NextFeeds]_vars

(***************************************************************************)
(* Timeframe views: SignalEngine._create_timeframes (signals.py 193-254).  *)
(* df.resample(rule) cuts the day into windows of the rule's width from    *)
(* midnight, closed and labelled on the left; agg gives a window without   *)
(* bars NaN for first, max, min and last and 0 for sum, and dropna drops   *)
(* the rows that hold a NaN.                                               *)
(***************************************************************************)
TimeframeWidth(tf) ==
    IF tf = "5m" THEN 5 ELSE IF tf = "15m" THEN 15
    ELSE IF tf = "60m" THEN 60 ELSE 240
ViewNames == {"5m", "15m", "60m", "4h"}

\* the positions of the bars of d inside the window that starts at t
InBucket(d, t, width) == {i \in 1..Len(d) : d[i].ts >= t /\ d[i].ts < t + width}

RECURSIVE SumVolume(_, _)
SumVolume(d, S) ==
    IF S = {} THEN 0
    ELSE LET i == CHOOSE x \in S : TRUE
         IN  d[i].Volume + SumVolume(d, S \ {i})

\* agg_rules on the window that starts at t
Aggregate(d, t, width) ==
    LET S == InBucket(d, t, width)
    IN  IF S = {}
        THEN [ts |-> t, Open |-> NaN, High |-> NaN, Low |-> NaN,
              Close |-> NaN, Volume |-> 0]
        ELSE LET first == CHOOSE i \in S : \A j \in S : i <= j
                 last == CHOOSE i \in S : \A j \in S : j <= i
             IN  [ts |-> t, Open |-> d[first].Open,
                  High |-> CHOOSE h \in {d[i].High : i \in S} :
                               \A i \in S : d[i].High <= h,
                  Low |-> CHOOSE l \in {d[i].Low : i \in S} :
                              \A i \in S : d[i].Low >= l,
                  Close |-> d[last].Close, Volume |-> SumVolume(d, S)]

HasNaN(row) == NaN \in {row.Open, row.High, row.Low, row.Close, row.Volume}
Dropna(rows) == SelectSeq(rows, LAMBDA row : ~HasNaN(row))

\* df.resample(rule).agg(agg_rules).dropna() on a non-empty sorted series
Resample(d, width) ==
    LET lo == d[1].ts \div width
        hi == d[Len(d)].ts \div width
    IN  Dropna([k \in 1..(hi - lo + 1) |-> Aggregate(d, (lo + k - 1) * width, width)])

\* the bar columns of the frames _create_timeframes returns beside "1m"
CreateTimeframes(d) ==
    IF d = <<>> THEN [tf \in {} |-> <<>>]
    ELSE [tf \in {n \in ViewNames : Resample(d, TimeframeWidth(n)) # <<>>}
              |-> Resample(d, TimeframeWidth(tf))]

(***************************************************************************)
(* SpecTimeframes: the signal engine's functions called on base series     *)
(* with gaps.                                                              *)
(***************************************************************************)
MaxMinute == 5
FarMinutes == {14, 15, 60, 240}

\* the base bar of minute t
MinuteBar(t) ==
    [ts |-> t, Open |-> 100 + (t % 7), High |-> 110 + ((3 * t) % 5),
     Low |-> 90 - ((2 * t) % 3), Close |-> 100 + ((5 * t) % 7),
     Volume |-> 1 + (t % 3)]

\* the minutes of S in ascending order
RECURSIVE Ascending(_)
Ascending(S) ==
    IF S = {} THEN <<>>
    ELSE LET m == CHOOSE x \in S : \A y \in S : x <= y
         IN  <<m>> \o Ascending(S \ {m})

BaseSeries ==
    {[i \in 1..Cardinality(S) |-> MinuteBar(Ascending(S)[i])] :
        S \in SUBSET ((0..MaxMinute) \cup FarMinutes)}

InitTimeframes ==
    /\ InitCommon
    /\ DefaultConfig
    /\ now = 1
    /\ args \in {[fn |-> "series", bars |-> s] : s \in BaseSeries}
    /\ ret = NoCall

\* confluence_analysis line 45 (the call is made from 30 bars on; the
\* function itself takes any series)
CallCreateTimeframes ==
    /\ args.fn = "series"
    /\ ret' = [fn |-> "_create_timeframes", frames |-> CreateTimeframes(args.bars)]
    /\ args' = [args EXCEPT !.bars = StoreAfterRead(@)]
    /\ lastOp' = Op("_create_timeframes", "signals", 0)
    /\ UNCHANGED <<storeVars, yahooVars, ocrVars, configVars, timerVars, now,
                   obsVars, rangeVars>>
    /\ UNCHANGED <<threadVars, threadObs>>

\* compute_indicators, generate_signal and confluence_analysis on the series
CallSignalsOnSeries ==
    /\ args.fn = "series"
    /\ ret' = [fn |-> "_compute_signals",
               out |-> ComputeSignals(args.bars, OpeningRange)]
    /\ args' = [args EXCEPT !.bars = StoreAfterRead(@)]
    /\ lastOp' = Op("_compute_signals", "signals", 0)
    /\ UNCHANGED <<storeVars, yahooVars, ocrVars, configVars, timerVars, now,
                   obsVars, rangeVars>>
    /\ UNCHANGED <<threadVars, threadObs>>

NextTimeframes == CallCreateTimeframes \/ CallSignalsOnSeries

SpecTimeframes == InitTimeframes /\ [][NextTimeframes]_vars

(***************************************************************************)
(* Claims about the extractor, under SpecExtract                           *)
(***************************************************************************)
\* the candidates and the median of the capture the last call worked on
LastCandidates == Candidates(lastTokens.text, min_px, max_px)
LastCallHadCandidates ==
    /\ lastOp.op = "capture"
    /\ lastTokens.ok
    /\ LastCandidates # <<>>

\* the last call found a last-known-good price and a median further than
\* max_jump_pts from it
JumpCase ==
    /\ LastCallHadCandidates
    /\ prevGood # NoPrice
    /\ Abs(Median(LastCandidates) - prevGood) > max_jump_pts

\* C6: when a last-known-good price P exists and the median of the accepted
\* tokens differs from P by more than max_jump_pts, _capture_price returns
\* exactly P and last_good_price is still P.
C6_JumpReturnsLastGood ==
    JumpCase => lastCapture = prevGood /\ last_good_price = prevGood

C6_Witness == JumpCase /\ lastCapture = prevGood /\ latest_price = prevGood

\* C7: whatever the bounds (min_px <= max_px) and the tokens, a returned
\* price lies within [min_px, max_px].
C7_ReturnWithinBounds ==
    lastCapture # NoPrice => min_px <= lastCapture /\ lastCapture <= max_px

\* C8: whatever the number of candidates, a returned price is an exact
\* multiple of the 0.25 tick.
C8_ReturnOnTickGrid ==
    lastCapture # NoPrice => lastCapture % Px(0, 25) = 0

(***************************************************************************)
(* Claims about the store, under Spec                                      *)
(***************************************************************************)
StrictlyAscending(d) == \A i \in 1..(Len(d) - 1) : d[i].ts < d[i + 1].ts
UniqueIndex(d) == \A i, j \in 1..Len(d) : d[i].ts = d[j].ts => i = j
Synthesised(bar) == bar.Volume = 0

\* C1: after any sequence of completed merges (_update_data) and splices
\* (_splice_ocr_price), for any timestamps the reference feed delivers, the
\* store holds at most one bar per timestamp, in strictly ascending order.
C1_StoreSortedUnique == StrictlyAscending(df) /\ UniqueIndex(df)

\* an update has just merged and spliced: the store holds a reference bar
\* and a bar the splice synthesised
C1_Witness ==
    /\ lastOp.op = "update"
    /\ \E i, j \in 1..Len(df) : Synthesised(df[i]) /\ ~Synthesised(df[j])

EnginePrices == {Median(Candidates(c.text, min_px, max_px)) :
                    c \in {x \in EngineCaptures : x.ok /\ x.text # <<>>}}

\* C9: splicing the same price into the current minute's bar twice leaves
\* the store as splicing it once does, whether the bar existed before or the
\* first splice synthesised it.
C9_SpliceIdempotent ==
    \A p \in EnginePrices :
        SpliceOcrPrice(SpliceOcrPrice(df, now, p), now, p)
            = SpliceOcrPrice(df, now, p)

\* an update has just spliced the feed's price into a bar it synthesised
\* for the current minute
C9_Witness ==
    /\ lastOp.op = "update"
    /\ latest_price # NoPrice
    /\ \E i \in 1..Len(df) :
           df[i].ts = now /\ Synthesised(df[i]) /\ df[i].Close = latest_price

\* what a cycle publishes when it falls back on the reference feed
PublishedReferenceClose ==
    /\ current_source = "YAHOO"
    /\ emitted = <<current_price, "YAHOO">>
    /\ df # <<>> => current_price = df[Len(df)].Close

\* C10 as stated: in a processing cycle for which the extractor produced no
\* reading, the published price is the close of the most recent bar of the
\* store and the source tag is the reference feed.
C10_NoReadingThisCycle ==
    lastOp.op = "update" /\ lastCapture = NoPrice => PublishedReferenceClose

\* C10 as amended: in a processing cycle in which the extraction feed holds
\* no latest price (no capture has succeeded yet), the published source tag
\* is the reference feed and the published price is the close of the most
\* recent bar of the store, when the store has one.
C10_NoLatestPrice ==
    lastOp.op = "update" /\ latest_price = NoPrice => PublishedReferenceClose

C10_Witness ==
    /\ lastOp.op = "update"
    /\ latest_price = NoPrice
    /\ Len(df) >= 2
    /\ emitted = <<df[Len(df)].Close, "YAHOO">>

(***************************************************************************)
(* Claims about the threads, under SpecThreads                             *)
(***************************************************************************)
\* C2: every step that changes the store is a step of the coordinating
\* worker's processing loop; no step of the reference-feed worker, of the
\* extraction-feed worker or of a reader changes it.
C2_OnlyEngineWrites ==
    [][df' # df => /\ lastOp'.comp = "engine"
                   /\ lastOp'.op \in {"merge_row", "merge_sort",
                                      "splice", "splice_sort"}]_vars

\* both feeds have published, the engine has written bars, a reader has
\* just copied them
C2_Witness ==
    /\ lastOp = Op("read", "ui", 0)
    /\ snap # NoData
    /\ latest_data # NoData
    /\ latest_price # NoPrice

\* C3: a snapshot a reader has just taken is a store a completed merge or
\* splice can have left: strictly ascending, one bar per timestamp.
C3_SnapshotIsCommitted ==
    (lastOp.op = "read" /\ snap # NoData)
        => /\ StrictlyAscending(snap[1])
           /\ UniqueIndex(snap[1])


(***************************************************************************)
(* Claims about start and stop, under SpecLife                             *)
(***************************************************************************)
StartOnStarted(c) ==
    (running[c] /\ lastOp' = Op("start", c, 0))
        => UNCHANGED <<dataVars, running, stop_event, pc, elocal, snap,
                       committed, history>>

StopBeforeStart(c) ==
    (history[c] # "started" /\ lastOp' = Op("stop", c, 0))
        => /\ UNCHANGED <<dataVars, running, pc, elocal, snap, committed>>
           /\ \A d \in Comps \ {c} : stop_event'[d] = stop_event[d]

FirstStart(c) ==
    (history[c] # "started" /\ history'[c] = "started")
        => /\ Cardinality(Live(pc', c)) = 1
           /\ \A w \in Live(pc', c) : pc'[c][w] = FirstPc(c)
           /\ running'[c]
           /\ ~stop_event'[c]

\* C4: for each component, start() on a started component leaves every
\* variable and the set of workers as they were; stop() before any start()
\* leaves the workers, the running flags and the data as they were; and the
\* first start(), after such a stop or not, leaves exactly one worker of the
\* component, at the head of its loop, with the loop condition true.
C4_StartStopIdempotent ==
    [][\A c \in Comps : StartOnStarted(c) /\ StopBeforeStart(c) /\ FirstStart(c)]_vars

\* stop() has been called on a feed never started while another component
\* is running
C4_Witness ==
    \E c \in Comps :
        /\ lastOp = Op("stop", c, 0)
        /\ history[c] = "stopped"
        /\ \E d \in Comps \ {c} : running[d]

RaiseKeepsWorker(c, w) ==
    lastOp' = Op("raise", c, w) => pc'[c][w] = "loop"

EndsOnlyOnStop(c, w) ==
    (pc[c][w] # "gone" /\ pc'[c][w] = "gone")
        => (pc[c][w] = "loop" /\ ~LoopContinues(c))

NextCycleRuns(c, w) ==
    (pc[c][w] = "loop" /\ pc'[c][w] # "loop" /\ LoopContinues(c))
        => pc'[c][w] = "cycle"

\* C5: a raise inside a cycle leaves the worker at the wait that ends the
\* cycle; a worker ends only at its loop test and only after stop; and
\* from the wait, with no stop requested, its next step begins a cycle.
C5_RaiseDoesNotEndWorker ==
    [][\A c \in Comps, w \in Workers :
          RaiseKeepsWorker(c, w) /\ EndsOnlyOnStop(c, w) /\ NextCycleRuns(c, w)]_vars

\* a cycle has just raised, no stop is requested, the worker waits
C5_Witness ==
    \E c \in Comps, w \in Workers :
        /\ lastOp = Op("raise", c, w)
        /\ pc[c][w] = "loop"
        /\ LoopContinues(c)

(***************************************************************************)
(* Claims about earlier bars, under Spec                                   *)
(***************************************************************************)
Superseded(d, i) == \E j \in 1..Len(d) : d[j].ts > d[i].ts

NoBarAhead(d) == \A i \in 1..Len(d) : d[i].ts <= now

\* C11: in a store with no bar ahead of the clock, a bar that has a bar for
\* a later minute after it is in the store, field for field, after every
\* step.
C11_PriorBarsImmutable ==
    [][\A i \in 1..Len(df) :
          (NoBarAhead(df) /\ Superseded(df, i))
              => \E k \in 1..Len(df') : df'[k] = df[i]]_vars


(***************************************************************************)
(* Claims about the opening range, under SpecThreads                       *)
(***************************************************************************)
\* C12: once the clock is past the end of the window and or_ready is true,
\* no step changes or_high or or_low.
C12_RangeFrozen ==
    [][(or_ready /\ now > OrEnd) => (or_high' = or_high /\ or_low' = or_low)]_vars


(***************************************************************************)
(* Claims about the signal engine, under SpecSignals                       *)
(***************************************************************************)
ConfluenceCalled == ret.fn = "confluence_analysis"
SignalCalled == ret.fn = "generate_signal"
Returned == ret.fn # "none" /\ ~ret.out.raised
InList(x, list) == \E i \in 1..Len(list) : list[i] = x

RangeReasons == {"Opening Range low break", "Opening Range high break"}
AnyRanges ==
    {<<h, l>> : h \in {NoPrice, 90, 100, 120}, l \in {NoPrice, 80, 100, 110}}

\* C13: a confluence call with or_ready false returns what it returns for
\* every other pair (or_high, or_low), and none of its reasons is an
\* opening-range reason.
C13_UnreadyRangeIgnored ==
    (ConfluenceCalled /\ ~args.or_ready)
        => /\ \A r \in AnyRanges :
                  ConfluenceAnalysis(args.frame, r[1], r[2], FALSE) = ret.out
           /\ Returned => \A why \in RangeReasons : ~InList(why, ret.out.reasons)

\* the close is below or_low, the frame bears indicators, or_ready is false
C13_Witness ==
    /\ ConfluenceCalled
    /\ Returned
    /\ ~args.or_ready
    /\ args.frame.n >= MinBars
    /\ args.or_low # NoPrice
    /\ args.frame.latest.Close < args.or_low

IndicatorBearing(frame) == IndicatorColumns \subseteq frame.latest.columns
AllUndefined(row) ==
    \A v \in {row.EMA9, row.EMA21, row.EMA50, row.MACD, row.MACDsig,
              row.MACDhist, row.RSI14, row.BBmid, row.BBup, row.BBlo,
              row.VWAP, row.StochK, row.StochD} : v = NaN
SingleRowReasons ==
    {"Complete bear EMA stack", "Partial bear EMA stack",
     "MACD bearish momentum", "RSI overbought (>70)", "RSI elevated (>60)",
     "RSI oversold (<30)", "Price above upper Bollinger Band",
     "Price below lower Bollinger Band", "Below session VWAP",
     "Above session VWAP", "Stochastic bear cross from overbought"}

\* C14: a confluence call on an indicator-bearing frame returns, with a
\* score in 0..100; when every indicator of the last row is NaN no reason is
\* a single-row reason, and with no higher timeframe and no ready range the
\* result is the neutral 50 with no reason.
C14_ScoreBoundedNanNeutral ==
    (ConfluenceCalled /\ IndicatorBearing(args.frame))
        => /\ Returned
           /\ ret.out.score \in 0..100
           /\ AllUndefined(args.frame.latest)
                 => /\ \A why \in SingleRowReasons : ~InList(why, ret.out.reasons)
                    /\ (args.frame.frames = NoFrames /\ ~args.or_ready)
                          => (ret.out.score = 50 /\ ret.out.reasons = <<>>)

\* every indicator of the last row is NaN, the higher timeframes are bearish
C14_Witness ==
    /\ ConfluenceCalled
    /\ IndicatorBearing(args.frame)
    /\ AllUndefined(args.frame.latest)
    /\ ret.out.score = 83

\* C15: a confluence call on a frame of fewer than MinBars bars returns,
\* with score 50.
C15_ShortFrameNeutral ==
    (ConfluenceCalled /\ args.frame.n < MinBars)
        => (Returned /\ ret.out.score = 50)

Computed == args.fn = "indicators" /\ ret.fn = "compute_indicators"
SameBars(rows, bars) ==
    /\ DOMAIN rows = DOMAIN bars
    /\ \A t \in DOMAIN bars :
          /\ rows[t].Open = bars[t].Open /\ rows[t].High = bars[t].High
          /\ rows[t].Low = bars[t].Low /\ rows[t].Close = bars[t].Close
          /\ rows[t].Volume = bars[t].Volume
ColumnsAre(rows, cols) ==
    \A t \in DOMAIN rows :
        rows[t].columns = cols /\ DOMAIN rows[t] = cols \cup {"columns"}

\* C16: compute_indicators returns its input's bars in every case, with no
\* indicator column when the input has fewer than 50 bars and with every
\* indicator column when it has 50 bars or more.
C16_ThresholdFiftyBars ==
    Computed =>
        /\ SameBars(ret.out, args.bars)
        /\ Len(args.bars) <= 49 => ColumnsAre(ret.out, BarColumns)
        /\ Len(args.bars) >= 50
              => ColumnsAre(ret.out, BarColumns \cup IndicatorColumns)

\* a 50-bar series came back with its indicator columns computed
C16_Witness ==
    /\ Computed
    /\ Len(args.bars) = 50
    /\ "EMA50" \in ret.out[50].columns
    /\ ret.out[50].EMA50 # NaN
    /\ ret.out[50].EMA50 # ret.out[50].Close

StrictlyDeclining(bars) ==
    \A i \in 2..Len(bars) : bars[i].Close < bars[i - 1].Close
BiasCalled == args.fn = "indicators" /\ ret.fn = "generate_signal"

\* C17: for every 60-bar series of strictly declining closes whose last bar
\* has EMA9 < EMA21 < EMA50, the single-row bias of the computed series is
\* BEARISH with a score of at least 65, and its first reason is "Complete
\* bear EMA stack".
C17_DecliningIsBearish ==
    (/\ BiasCalled
     /\ Len(args.bars) = 60
     /\ StrictlyDeclining(args.bars)
     /\ Lt(ret.latest.EMA9, ret.latest.EMA21)
     /\ Lt(ret.latest.EMA21, ret.latest.EMA50))
        => /\ ~ret.out.raised
           /\ ret.out.bias = "BEARISH"
           /\ ret.out.score >= 65
           /\ Len(ret.out.reasons) >= 1
           /\ ret.out.reasons[1] = "Complete bear EMA stack"

RsiCalled == args.fn = "indicators" /\ ret.fn = "_rsi"
\* the 14 differences of the last window are all gains
RisingWindow(bars) ==
    /\ Len(bars) >= 15
    /\ \A i \in (Len(bars) - 13)..Len(bars) : bars[i].Close > bars[i - 1].Close

\* C19: on a close series strictly increasing over the 14-bar lookback
\* window, RSI(14) of the last bar is a defined value in the upper half of
\* its scale (it approaches 100), never the result of a division by zero.
C19_RisingRsiDefined ==
    (RsiCalled /\ RisingWindow(args.bars))
        => LET rsi == ret.out[Len(args.bars)]
           IN  rsi # NaN /\ rsi > 50 /\ rsi <= 100


(***************************************************************************)
(* Claims about the region locator, under SpecLocate                       *)
(***************************************************************************)
Located == args.fn = "locate" /\ ret.fn = "auto_locate"
\* the text is in the header set whatever its case, once stripped
InHeaderSet(text) ==
    \E w \in PRICE_WORDS : Upper(Strip(text)) = Upper(w)
SomeHeader(words) == \E i \in 1..Len(words) : InHeaderSet(words[i].text)
SomeDigit(words) == \E i \in 1..Len(words) : HasDigit(words[i].text)

\* C20: auto_locate returns no region when none of the recognised words is
\* in the price-header set and none contains a digit, and returns a region
\* when some word is in the header set or contains a digit.
C20_RegionIffHeaderOrDigit ==
    (Located /\ args.ok)
        => (ret.out.found <=> (SomeHeader(args.words) \/ SomeDigit(args.words)))

(***************************************************************************)
(* Claims about the worker lifecycle under stop and restart                *)
(***************************************************************************)
\* C22: whatever start() and stop() calls a component receives, at most one
\* worker loop of the component is live at any time.
C22_OneWorkerPerComponent ==
    \A c \in Comps : Cardinality(Live(pc, c)) <= 1

(***************************************************************************)
(* Claims about the splice and the price of record, under Spec             *)
(***************************************************************************)
\* the store as the splice of this cycle finds it, and the bars of a store
StoreAtSplice == MergeYahoo(df, latest_data)
Bars(d) == {d[i] : i \in 1..Len(d)}
CycleStep == lastOp'.op = "update"
CycleDone == lastOp.op = "update"

\* C26: a splice of price p into a non-empty store sets Close to p and
\* widens High and Low of the current minute's bar, keeping its Open and
\* Volume; without such a bar it adds one that opens at the close of the
\* last bar, closes at p, spans the two and has volume 0.  No other bar
\* changes.
C26_SpliceSemantics ==
    [][(CycleStep /\ latest_price # NoPrice /\ StoreAtSplice # <<>>)
          => LET m == StoreAtSplice
                 p == latest_price
             IN  IF \E i \in 1..Len(m) : m[i].ts = now
                 THEN /\ Len(df') = Len(m)
                      /\ \A i \in 1..Len(m) :
                            IF m[i].ts = now
                            THEN df'[i] = [ts |-> now, Open |-> m[i].Open,
                                           High |-> Max(m[i].High, p),
                                           Low |-> Min(m[i].Low, p),
                                           Close |-> p,
                                           Volume |-> m[i].Volume]
                            ELSE df'[i] = m[i]
                 ELSE /\ Len(df') = Len(m) + 1
                      /\ Bars(df') = Bars(m) \cup
                            {[ts |-> now, Open |-> m[Len(m)].Close,
                              High |-> Max(m[Len(m)].Close, p),
                              Low |-> Min(m[Len(m)].Close, p),
                              Close |-> p, Volume |-> 0]}]_vars

\* a cycle has just added a bar for the current minute to a store of
\* reference bars, and the bar spans the previous close and the price
C26_Witness ==
    /\ CycleDone
    /\ Len(df) >= 2
    /\ df[Len(df)].ts = now
    /\ df[Len(df)].Volume = 0
    /\ df[Len(df)].Close = latest_price
    /\ df[Len(df)].Open = df[Len(df) - 1].Close
    /\ df[Len(df)].High > df[Len(df)].Low

\* the bar of minute t in store d, which holds one
BarOf(d, t) == d[CHOOSE i \in 1..Len(d) : d[i].ts = t]
\* the price of record is an extracted price and is the close of the current
\* minute's bar: a cycle of this minute has spliced it into that bar
SplicedThisMinute ==
    /\ current_source = "OCR"
    /\ \E i \in 1..Len(df) : df[i].ts = now
    /\ BarOf(df, now).Close = current_price
    /\ current_price \notin {YahooBar(t).Close : t \in 1..MaxTime}

\* C27: within one minute, at the end of every processing cycle the current
\* minute's bar has High >= and Low <= every extracted price spliced into
\* it so far in that minute, also when the reference feed's snapshot holds
\* a bar for that minute.
C27_BarKeepsSplicedExtremes ==
    [][(CycleStep /\ SplicedThisMinute)
          => /\ \E i \in 1..Len(df') : df'[i].ts = now
             /\ BarOf(df', now).High >= current_price
             /\ BarOf(df', now).Low <= current_price]_vars

NothingDelivered == latest_data = NoData \/ latest_data[1] = <<>>

\* C28: while the store is empty and the reference feed has delivered no
\* bar, a cycle with an extraction price publishes that price with the
\* extraction tag and adds no bar; a non-empty store always holds a bar the
\* reference feed delivered.
C28_NoSeedingByExtraction ==
    [][/\ (CycleStep /\ df = <<>> /\ NothingDelivered /\ latest_price # NoPrice)
            => (df' = <<>> /\ emitted' = <<latest_price, "OCR">>
                /\ current_price' = latest_price /\ current_source' = "OCR")
       /\ (df = <<>> /\ df' # <<>>)
            => (~NothingDelivered /\ \E i \in 1..Len(df') : ~Synthesised(df'[i]))
      ]_vars

\* a cycle has published an extracted price while the store is still empty
C28_Witness ==
    /\ CycleDone
    /\ df = <<>>
    /\ latest_price # NoPrice
    /\ emitted = <<latest_price, "OCR">>

\* C29: at the end of every processing cycle, from the first one on, the
\* published (price, source) pair comes from a feed: the extraction feed's
\* latest price with the extraction tag, or the close of the last bar of the
\* store with the reference tag.
C29_PublishedPairFromFeed ==
    CycleDone
        => \/ emitted = <<latest_price, "OCR">> /\ latest_price # NoPrice
           \/ /\ df # <<>>
              /\ emitted = <<df[Len(df)].Close, "YAHOO">>

(***************************************************************************)
(* Claims about the processing cycle, under SpecCycle                      *)
(***************************************************************************)
SignalsRan == CycleDone /\ ret.fn = "_compute_signals"

\* C24: with a store too short for indicators (fewer than 50 bars, 10 to 49
\* in particular) the single-row bias of the cycle's signal computation is
\* an explicit neutral result, and nothing is raised.
C24_ShortStoreNeutral ==
    (SignalsRan /\ df # <<>> /\ Len(df) < MinBars)
        => (~ret.out.raised /\ ret.out.bias = "NEUTRAL")

\* C25: at the end of every processing cycle that runs on a non-empty store
\* before the opening-range window has closed, or_high and or_low are the
\* maximum High and the minimum Low of the bars then inside the window,
\* whatever the signal computation of the cycle did.
C25_RangeUpdatedEveryCycle ==
    (SignalsRan /\ df # <<>> /\ now <= OrEnd /\ SelectSeq(df, InWindow) # <<>>)
        => /\ or_high = MaxHigh(SelectSeq(df, InWindow))
           /\ or_low = MinLow(SelectSeq(df, InWindow))

(***************************************************************************)
(* Claims about the presentation layer's calls, under SpecUi               *)
(***************************************************************************)
MidSplice(w) == pc["engine"][w] \in {"splice", "resort"}

\* C21: a relocation of the capture region is executed by the extraction
\* worker only, and none is executed while the coordinating worker is in
\* the middle of a splice.
C21_RelocationOnlyByOcrWorker ==
    lastOp.op = "locate"
        => (lastOp.comp = "ocr" /\ \A w \in Workers : ~MidSplice(w))

\* the (price, source) pairs a cycle of the coordinating worker establishes
\* here: the constructor's pair, a reference close with "YAHOO", the
\* extracted price with "OCR"
EstablishedPairs ==
    {<<0, "YAHOO">>}
        \cup {<<YahooBar(t).Close, "YAHOO">> : t \in 1..MaxTime}
        \cup {<<Median(Candidates(c.text, min_px, max_px)), "OCR">> :
                  c \in {x \in ThreadCaptures : x.ok}}

\* C30: the (price, source) pair get_current_data returns from a non-empty
\* store is a pair the coordinating worker established together.
C30_ReaderSeesEstablishedPair ==
    (ret.fn = "get_current_data" /\ ~ret.raised /\ ret.source # "NONE")
        => <<ret.price, ret.source>> \in EstablishedPairs

(***************************************************************************)
(* Claims about stopping, under SpecStop                                   *)
(***************************************************************************)
Stopped(c) == ~running[c] /\ stop_event[c]
StopStep == lastOp'.op = "stop"

\* C23: after stop(), as long as no start() follows: a worker that waits
\* between cycles begins no further cycle, a worker in a cycle is at the
\* wait after that cycle at the latest, and every worker of the component
\* eventually exits; the stop call itself moves no worker (it returns
\* without waiting for any).
C23_StopEndsWorkers ==
    /\ [][\A c \in Comps, w \in Workers :
              /\ (Stopped(c) /\ pc[c][w] = "loop")
                     => pc'[c][w] \in {"loop", "gone"}
              /\ (Stopped(c) /\ InCycle(c, w))
                     => \/ pc'[c][w] \in {pc[c][w], "loop"}
                        \/ ~Stopped(c)'
              /\ StopStep => pc'[c][w] = pc[c][w]]_vars
    /\ \A c \in Comps : Stopped(c) ~> (Live(pc, c) = {} \/ running[c])

\* a stop found the worker of the engine in a cycle, and the worker has
\* finished that cycle and left its loop while the engine stayed stopped
C23_Witness ==
    /\ Stopped("engine")
    /\ lastOp = Op("loop", "engine", 1)
    /\ pc["engine"][1] = "gone"
    /\ emitted # <<>>

(***************************************************************************)
(* Claims about the relocation timer, under SpecOcrLoop                    *)
(***************************************************************************)
IterationOps == {"capture", "relocated", "skipped"}
IterationStep == lastOp'.comp = "ocr" /\ lastOp'.op \in IterationOps
IterationDone == lastOp.comp = "ocr" /\ lastOp.op \in IterationOps

\* C31: the worker has attempted to locate the region exactly once when
\* its first extraction has been made, and every attempt it makes in the
\* loop comes more than the relocation period after the previous
\* scheduled attempt.
C31_OneLocateBeforeFirstCapture ==
    [][/\ (IterationStep /\ captures = 0) => locates' = 1
       /\ (IterationStep /\ locates' # locates)
              => clock - last_auto_locate > RelocatePeriod]_vars

\* C32: a relocation that is due is skipped exactly when an extraction
\* succeeded no more than 3 seconds ago; performed or skipped, the timer
\* restarts at the time of the iteration, and no relocation happens in an
\* iteration in which none is due.
C32_SkipIffRecentPrice ==
    [][IterationStep =>
          /\ (clock - last_auto_locate > RelocatePeriod)
                 => /\ (locates' = locates)
                           <=> (/\ last_ocr_time # NoTime
                                /\ clock - last_ocr_time <= OcrGrace)
                    /\ last_auto_locate' = clock
          /\ (clock - last_auto_locate <= RelocatePeriod)
                 => (locates' = locates /\ last_auto_locate' = last_auto_locate)
      ]_vars

\* a due relocation has just been skipped and the timer restarted
C32_Witness ==
    /\ IterationDone
    /\ lastOp.op = "skipped"
    /\ last_auto_locate = clock
    /\ locates = 2

\* the capture tokens hold a candidate more than max_jump_pts away from good
Rejected(capture, good) ==
    /\ capture.ok
    /\ good # NoPrice
    /\ Candidates(capture.text, min_px, max_px) # <<>>
    /\ Abs(Median(Candidates(capture.text, min_px, max_px)) - good) > max_jump_pts

\* C33: an iteration whose capture is more than max_jump_pts away from the
\* last-known-good price P publishes P, keeps P as last-known-good and is
\* recorded as a successful extraction at its time, however many such
\* iterations came before; a relocation due less than 3 seconds after such
\* an iteration is skipped.
C33_RejectedCaptureKeepsLevel ==
    /\ []((IterationDone /\ Rejected(lastTokens, prevGood))
              => /\ latest_price = prevGood
                 /\ last_good_price = prevGood
                 /\ lastCapture = prevGood
                 /\ last_ocr_time = clock)
    /\ [][(/\ IterationStep
           /\ IterationDone /\ Rejected(lastTokens, prevGood)
           /\ clock - last_ocr_time < OcrGrace
           /\ clock - last_auto_locate > RelocatePeriod)
              => locates' = locates]_vars

\* a relocation fell due right after a rejected capture and was skipped
C33_Witness ==
    /\ IterationDone
    /\ lastOp.op = "skipped"
    /\ Rejected(lastTokens, prevGood)
    /\ latest_price = prevGood
    /\ last_ocr_time = clock

(***************************************************************************)
(* Claims about failed acquisitions, under SpecFeeds                       *)
(***************************************************************************)
NothingFetched(download) == ~download.ok \/ download.rows = <<>>
NothingCaptured(capture) ==
    ~capture.ok \/ Candidates(capture.text, min_px, max_px) = <<>>

Scored == ConfluenceCalled /\ Returned /\ args.frame.n >= 30

\* every rule the call triggers, in evaluation order, with its weight in
\* tenths of a point
TriggeredRules ==
    LET frame == args.frame
        latest == frame.latest
        rules == HigherTimeframe(frame, "4h", 15)
                     \o HigherTimeframe(frame, "60m", 10)
                     \o HigherTimeframe(frame, "15m", 8)
                     \o ConfEma(latest) \o ConfMacd(latest)
                     \o ConfRsi(latest) \o ConfBands(latest)
                     \o ConfVwap(latest)
                     \o ConfOpeningRange(latest, args.or_high, args.or_low,
                                         args.or_ready)
                     \o ConfStochastic(latest)
    IN  rules \o ConfVolume(frame, 500 + SumDeltas(rules))

IsPrefixOfRules(reasons) ==
    /\ Len(reasons) = Min(8, Len(TriggeredRules))
    /\ \A i \in 1..Len(reasons) : reasons[i] = TriggeredRules[i].why

\* C35 as stated: at most 8 reasons, the first of the triggered rules in
\* evaluation order, and a score equal to 50 plus the weights of all
\* triggered rules, clamped to [0,100].
C35_ScoreIsClampedSum ==
    Scored
        => /\ IsPrefixOfRules(ret.out.reasons)
           /\ 10 * ret.out.score
                  = Max(0, Min(1000, 500 + SumDeltas(TriggeredRules)))

\* C35 amended: at most 8 reasons, the first of the triggered rules in
\* evaluation order, and a score equal to 50 plus the weights of all
\* triggered rules, those cut off included, converted to an integer by
\* truncation and then clamped to [0,100].
C35_ScoreIsTruncatedSum ==
    Scored
        => /\ IsPrefixOfRules(ret.out.reasons)
           /\ ret.out.score
                  = Max(0, Min(100, Truncate(500 + SumDeltas(TriggeredRules))))

\* more than 8 rules triggered, 8 reasons returned, a fractional sum
C35_Witness ==
    /\ Scored
    /\ Len(TriggeredRules) > 8
    /\ Len(ret.out.reasons) = 8
    /\ SumDeltas(TriggeredRules) % 10 # 0
    /\ SumDeltas(SubSeq(TriggeredRules, 1, 8)) # SumDeltas(TriggeredRules)

\* the weight the statement gives a higher timeframe: 15, 10 and 8 from the
\* shortest of the three to the longest
StatedWeight(tf) == IF tf = "15m" THEN 15 ELSE IF tf = "60m" THEN 10 ELSE 8

\* what a higher timeframe of the call adds, in tenths, by the statement
StatedContribution(tf) ==
    IF tf \notin DOMAIN args.frame.frames THEN 0
    ELSE LET tf_bias == AnalyzeBias(args.frame.frames[tf]).bias
         IN  IF tf_bias = "BEARISH" THEN 10 * StatedWeight(tf)
             ELSE IF tf_bias = "BULLISH" THEN 0 - 7 * StatedWeight(tf)
             ELSE 0

\* C36: with no other rule triggered (every indicator of the last row
\* undefined, no ready range, no volume surge), the score is 50 plus, for
\* each higher timeframe, its weight (15, 10, 8 for progressively longer
\* timeframes) when its bias is bearish, minus 70% of the weight when it is
\* bullish, and nothing when it is neutral.
C36_TimeframeWeights ==
    (/\ Scored
     /\ AllUndefined(args.frame.latest)
     /\ ~args.or_ready
     /\ args.frame.latest.Volume = 100)
        => ret.out.score
               = Clamp(Truncate(500 + StatedContribution("15m")
                                    + StatedContribution("60m")
                                    + StatedContribution("4h")))

(***************************************************************************)
(* Claims about the timeframe views, under SpecTimeframes                  *)
(***************************************************************************)
ViewsBuilt == ret.fn = "_create_timeframes"
Covered(d, t, width) == \A m \in t..(t + width - 1) : InIndex(d, m)

\* C37: every bucket of every view has the open of its earliest base bar,
\* the maximum high, the minimum low, the close of its latest base bar and
\* the sum of the volumes of the base bars inside its window, and its
\* window is neither empty nor incomplete: the base series has a bar for
\* each of its minutes.
C37_ViewBuckets ==
    ViewsBuilt =>
        \A tf \in DOMAIN ret.frames :
            \A k \in 1..Len(ret.frames[tf]) :
                LET row == ret.frames[tf][k]
                    width == TimeframeWidth(tf)
                    S == InBucket(args.bars, row.ts, width)
                IN  /\ S # {}
                    /\ row.ts % width = 0
                    /\ \A i \in S :
                           /\ args.bars[i].High <= row.High
                           /\ args.bars[i].Low >= row.Low
                           /\ (\A j \in S : i <= j) => row.Open = args.bars[i].Open
                           /\ (\A j \in S : j <= i) => row.Close = args.bars[i].Close
                    /\ \E i \in S : args.bars[i].High = row.High
                    /\ \E i \in S : args.bars[i].Low = row.Low
                    /\ row.Volume = SumVolume(args.bars, S)
                    /\ Covered(args.bars, row.ts, width)

FirstHeader(words) ==
    CHOOSE i \in 1..Len(words) :
        /\ InHeaderSet(words[i].text)
        /\ \A j \in 1..(i - 1) : ~InHeaderSet(words[j].text)

\* C39: when some recognised token equals, ignoring case and surrounding
\* whitespace, one of the spellings of PRICE_WORDS, auto_locate returns the
\* region derived from the first such token.
C39_EverySpellingAccepted ==
    (Located /\ args.ok /\ SomeHeader(args.words))
        => ret.out = HeaderRegion(args.words[FirstHeader(args.words)])

(***************************************************************************)
(* Claims about the shape of the bars, under Spec                          *)
(***************************************************************************)
WellFormedBar(b) ==
    /\ b.Low <= Min(b.Open, b.Close)
    /\ b.High >= Max(b.Open, b.Close)

\* C40: the bars of the reference feed having Low <= min(Open, Close) and
\* High >= max(Open, Close), every bar of the store has the same after
\* every merge and every splice.
C40_BarsWellFormed ==
    (\A b \in RawBars : WellFormedBar(b))
        => \A i \in 1..Len(df) : WellFormedBar(df[i])

\* a price above the reference bar's high has been spliced into it
C40_Witness ==
    /\ CycleDone
    /\ InIndex(df, now)
    /\ BarOf(df, now).Volume > 0
    /\ BarOf(df, now).Close = latest_price
    /\ BarOf(df, now).High = latest_price
    /\ BarOf(df, now).High > YahooBar(now).High

====
